---- MODULE Spec2Model ----
(***************************************************************************)
(* A model of dcos-go's zkstore (a hash-bucketed, versioned object store   *)
(* on ZooKeeper) and of its future/promise primitive.                      *)
(*                                                                         *)
(* Strings of the Go code are sequences of atoms: "/" is the path          *)
(* separator, " " a space, "." a character outside every name class, and   *)
(* any other atom is a non-empty run of characters of [A-Za-z0-9_-] (a     *)
(* word).  No two words are adjacent in a string of the model.             *)
(***************************************************************************)
EXTENDS Integers, Sequences, FiniteSets, TLC

VARIABLES
    zk,       \* the znodes of the coordination service: path -> [data, version]
    pc,       \* per client: where its current Store call stands
    call,     \* per client: the call's operation and arguments
    idx,      \* per client: setFully's loop index i
    pend,     \* per client: deleteItem's versions still to delete
    ret,      \* per client: what the call returned
    pre,      \* per client: the znodes as they were when the call was made
    prevPut,  \* per client: the version the last Put of the same Ident returned
    nops,     \* the number of calls made
    lastPut,  \* path -> the version the last successful Put of it returned
    f,            \* the promise's future: [done, v, err]
    m,            \* the promise's mutex: the goroutine that holds it, or ""
    callbacks,    \* the promise's asynchronous listeners not yet handed to a task
    completed,    \* the promise's completed flag (an atomic int32)
    panicHandler, \* the promise's panic handler, "nil" when none is installed
    options,      \* the promise's options: [completers]
    gpc,          \* per goroutine: where its current call on the promise stands
    garg,         \* per goroutine: the call and its arguments
    gi,           \* per goroutine: the deferred completer complete() runs next
    gpanic,       \* per goroutine: a panic is unwinding its complete()
    tasks,        \* the goroutines the promise started, each [fns, v, err, next, wait]
    log,          \* every invocation of a listener or of the panic handler, in order
    effective,    \* the calls of complete that stored their value and error
    ignored,      \* the calls of complete that returned early: [v, err, at]
    closes,       \* how many times close(f.done) ran
    ncalls,       \* the number of calls made on the promise
    crashed,      \* an unrecovered panic ended the program
    registered,   \* the listeners onComplete appended to callbacks, in order
    numBuckets,   \* Store.hashBuckets of the Store whose bucketFor is called
    hasher,       \* how many times the name was written to the hash.Hash in use
    sums,         \* the digests the hash provider gave: writes -> low 8 bytes
    hpc,          \* where the current call of bucketFor stands
    hashed,       \* what the calls of bucketFor returned, in order
    wpc,          \* per waiter: where its call of Block or BlockContext stands
    wcall,        \* per waiter: the call, the future it is made on, [op, on, early]
    wret,         \* per waiter: what the call returned, [v, err, by, done]
    cancel,       \* per waiter: its cancellation source, "nil" until it fires
    src,          \* the context or chan behind the futures of Await, AwaitChan, ...
    nwaits,       \* the number of calls the waiters made
    ins,          \* the futures given to JoinContext: [kind, done, v, err] each
    mctx,         \* ctx.Err() of the context given to JoinContext
    merger,       \* the Merger given: [kind, error], error being FirstError's field
    jpc,          \* where the call of JoinContext stands
    mpc,          \* where BlockContext stands in the goroutine JoinContext started
    mgo,          \* per input: where the goroutine BlockContext started for it stands
    mm,           \* BlockContext's mutex: the input whose goroutine holds it, or 0
    mcalls,       \* the calls of merge.Merge, in order: [i, v, err, completed]
    mres,         \* BlockContext's named results: [v, err]
    flat,         \* a call of Flatten: [pc, v, err, out, saw]
    cache,        \* the cache: [kind, objects, w, r, fatal], w and r its RWMutex
    cg,           \* per goroutine: its call on the cache, [pc, op, key, val, m, in, raced, ret]
    ccalls        \* the number of calls made on the cache

svars == <<zk, pc, call, idx, pend, ret, pre, prevPut, nops, lastPut>>

pvars == <<f, m, callbacks, completed, panicHandler, options, gpc, garg, gi, gpanic,
           tasks, log, effective, ignored, closes, ncalls, crashed, registered>>

\* the hashing of one name: the Store's hashBuckets, the number of times the
\* name was written to the hash.Hash in use, the digests the hash provider
\* has given (by that number), where bucketFor is, and what its calls returned
hvars == <<numBuckets, hasher, sums, hpc, hashed>>

\* the waiters of futures: their calls of Block and BlockContext, their
\* cancellation sources, and the source wrapped by the futures of Await
wvars == <<wpc, wcall, wret, cancel, src, nwaits>>

\* the merge of futures: JoinContext, the BlockContext it runs, the
\* goroutines of BlockContext, the Merger
mvars == <<ins, mctx, merger, jpc, mpc, mgo, mm, mcalls, mres>>

\* the call of Flatten
fvars == <<flat>>

\* the cache and the goroutines that call it
cvars == <<cache, cg, ccalls>>

vars == <<svars, pvars, hvars, wvars, mvars, fvars, cvars>>

(***************************************************************************)
(* Bounds of the model.                                                    *)
(***************************************************************************)
\* the znode version counter is not driven past this value
MaxVersion == 2

\* OptNumHashBuckets is given no more than this
MaxBuckets == 5

\* the low 8 bytes of a digest, read as a signed integer, lie in
\* -(MaxDigest + 1)..MaxDigest: the signed 64-bit word, scaled down
MaxDigest == 15

\* bucketFor is called at most this often
MaxHashCalls == 2

\* how many calls of Block and BlockContext the waiters make
MaxWaits == 2

\* how many futures JoinContext is given
MaxInputs == 2
\* the number of Store calls in one behaviour of the sequential specification
MaxOps == 2
\* the number of calls made on the promise in one behaviour
MaxCalls == 3

Clients == {"c1", "c2"}

\* the callers of the cache make no more calls than this in all
MaxCacheCalls == 2

(***************************************************************************)
(* Strings.                                                                *)
(***************************************************************************)
IsWord(a) == a \notin {"/", " ", "."}

RECURSIVE TrimLeft(_)
TrimLeft(s) == IF s # <<>> /\ Head(s) = " " THEN TrimLeft(Tail(s)) ELSE s

RECURSIVE TrimRight(_)
TrimRight(s) ==
    IF s # <<>> /\ s[Len(s)] = " " THEN TrimRight(SubSeq(s, 1, Len(s) - 1)) ELSE s

\* strings.TrimSpace
TrimSpace(s) == TrimRight(TrimLeft(s))

\* strings.Split(s, "/")
RECURSIVE Split(_)
Split(s) ==
    IF \A k \in 1..Len(s) : s[k] # "/"
    THEN <<s>>
    ELSE LET k == CHOOSE j \in 1..Len(s) : s[j] = "/" /\ \A h \in 1..(j - 1) : s[h] # "/"
         IN  <<SubSeq(s, 1, k - 1)>> \o Split(SubSeq(s, k + 1, Len(s)))

\* the elements of a sequence that are not the empty string
RECURSIVE NonEmpty(_)
NonEmpty(ss) ==
    IF ss = <<>> THEN <<>>
    ELSE IF Head(ss) = <<>> THEN NonEmpty(Tail(ss))
    ELSE <<Head(ss)>> \o NonEmpty(Tail(ss))

\* strings.Join(ss, "/")
RECURSIVE JoinSlash(_)
JoinSlash(ss) ==
    IF ss = <<>> THEN <<>>
    ELSE IF Len(ss) = 1 THEN ss[1]
    ELSE ss[1] \o <<"/">> \o JoinSlash(Tail(ss))

\* path.Clean, for strings without "." and ".." elements (no validated name or
\* category holds a dot): repeated and trailing separators are dropped.
Clean(s) ==
    LET rooted == s # <<>> /\ s[1] = "/"
        segs   == NonEmpty(Split(s))
    IN  IF segs = <<>>
        THEN IF rooted THEN <<"/">> ELSE <<".">>
        ELSE (IF rooted THEN <<"/">> ELSE <<>>) \o JoinSlash(segs)

\* path.Join: the non-empty elements joined by "/", then cleaned
Join(elems) ==
    IF NonEmpty(elems) = <<>> THEN <<>> ELSE Clean(JoinSlash(NonEmpty(elems)))

\* strconv.Itoa
Itoa(n) == <<ToString(n)>>

(***************************************************************************)
(* Validation (validate.go, item.go, ident.go).                            *)
(***************************************************************************)
\* validNameRE = ^[\w\d_-]*$
MatchNameRE(name) == \A k \in 1..Len(name) : IsWord(name[k])

\* validCategoryRE = ^[/\w\d_-]+$
MatchCategoryRE(name) ==
    name # <<>> /\ \A k \in 1..Len(name) : IsWord(name[k]) \/ name[k] = "/"

validateNamed(name, required) ==
    IF TrimSpace(name) # name THEN "leader or trailing spaces not allowed"
    ELSE IF required /\ name = <<>> THEN "cannot be blank"
    ELSE IF ~MatchNameRE(name) THEN "must match"
    ELSE "nil"

validateCategory(name) ==
    IF TrimSpace(name) = <<>> THEN "cannot be blank"
    ELSE IF ~MatchCategoryRE(name) THEN "must match"
    ELSE "nil"

\* Location.Validate: the name (required), then the category
LocationValidate(loc) ==
    IF validateNamed(loc.Name, TRUE) # "nil" THEN "invalid name"
    ELSE IF validateCategory(loc.Category) # "nil" THEN "invalid category"
    ELSE "nil"

IdentValidate(i) ==
    IF LocationValidate(i.Location) # "nil" THEN "invalid location"
    ELSE IF validateNamed(i.Version, FALSE) # "nil" THEN "invalid version"
    ELSE "nil"

\* len(i.Data) > 1024*1024
MaxDataLen == 1048576

\* Item.Validate without the limit on len(i.Data)
ItemValidate_NoSizeLimit(item) == IdentValidate(item.Ident)

ItemValidate(item) ==
    IF IdentValidate(item.Ident) # "nil" THEN IdentValidate(item.Ident)
    ELSE IF item.Data.len > MaxDataLen THEN "data is greater than 1MB"
    ELSE "nil"

\* Ident.ZKVersion is a *int32: <<>> is the nil pointer, <<v>> points to v
actualZKVersion(i) == IF i.ZKVersion = <<>> THEN -1 ELSE i.ZKVersion[1]

\* SetZKVersion with a value receiver: the caller's Ident is left as it was
SetZKVersion_ValueReceiver(i, version) == i

\* Ident.SetZKVersion
SetZKVersion(i, version) == [i EXCEPT !.ZKVersion = <<version>>]

(***************************************************************************)
(* The Store's configuration and its paths (store.go).                     *)
(***************************************************************************)
basePath == <<"/", "storage">>

bucketsZnodeName == <<"buckets">>

\* the number of hash buckets of the modelled Store (OptNumHashBuckets)
hashBuckets == 4

\* the low 8 bytes of the digest of a name, read as a little-endian int64: the
\* hasher is the pluggable hash provider; the values stand for its output
DigestTail(name) ==
    CASE name = <<"foo">> -> -6
      [] name = <<"bar">> -> 5
      [] name = <<"baz">> -> 6
      [] OTHER -> 0

\* Go's %: the remainder has the sign of the dividend
GoRem(a, n) == IF a >= 0 THEN a % n ELSE -((-a) % n)

\* hashBytesToBucket without the negation of a negative remainder
hashBytesToBucketOf_NoFold(n, res) == GoRem(res, n)

\* hashBytesToBucket of a Store with n hash buckets, res the low 8 bytes of
\* the digest read as a signed integer
hashBytesToBucketOf(n, res) ==
    LET mod == GoRem(res, n)
    IN  IF mod < 0 THEN mod * (-1) ELSE mod

hashBytesToBucket(res) == hashBytesToBucketOf(hashBuckets, res)

\* no bucketFunc is installed: the name is hashed
bucketFor(name) == hashBytesToBucket(DigestTail(name))

\* [err, path]
\* bucketsPath that splits the category as given, without path.Clean
bucketsPath_NoClean(category) ==
    LET segments == Split(category)
    IN  IF segments[Len(segments)] = bucketsZnodeName
        THEN [err |-> "category may not end with the buckets znode name", path |-> <<>>]
        ELSE [err |-> "nil",
              path |-> Join(<<<<"/">>, basePath, category, bucketsZnodeName>>)]

bucketsPath(category) ==
    LET segments == Split(Clean(category))
    IN  IF segments[Len(segments)] = bucketsZnodeName
        THEN [err |-> "category may not end with the buckets znode name", path |-> <<>>]
        ELSE [err |-> "nil",
              path |-> Join(<<<<"/">>, basePath, category, bucketsZnodeName>>)]

\* identPath without the version element: a version shares its item's znode
identPath_DropsVersion(ident) ==
    LET bp == bucketsPath(ident.Location.Category)
    IN  IF bp.err # "nil" THEN bp
        ELSE [err |-> "nil",
              path |-> Join(<<bp.path, Itoa(bucketFor(ident.Location.Name)),
                              ident.Location.Name>>)]

\* [err, path]
identPath(ident) ==
    LET bp == bucketsPath(ident.Location.Category)
    IN  IF bp.err # "nil" THEN bp
        ELSE [err |-> "nil",
              path |-> Join(<<bp.path, Itoa(bucketFor(ident.Location.Name)),
                              ident.Location.Name, ident.Version>>)]

(***************************************************************************)
(* The coordination service: a tree of znodes, each with data and a        *)
(* version.  zk maps the path of every existing znode to its record; the   *)
(* operations are those of zk.Conn, with ZooKeeper's results.              *)
(***************************************************************************)
Root == <<"/">>

EmptyData == [bytes |-> "", len |-> 0]

\* the path of the parent znode
Parent(p) ==
    LET segs == NonEmpty(Split(p))
    IN  IF Len(segs) <= 1 THEN Root
        ELSE <<"/">> \o JoinSlash(SubSeq(segs, 1, Len(segs) - 1))

\* the last element of a path
Base(p) == LET segs == NonEmpty(Split(p)) IN segs[Len(segs)]

ChildNames(z, p) == {Base(q) : q \in {r \in DOMAIN z : r # Root /\ Parent(r) = p}}

\* conn.Set: [err, zk, version]
zkSet(z, p, data, version) ==
    IF p \notin DOMAIN z THEN [err |-> "ErrNoNode", zk |-> z, version |-> -1]
    ELSE IF version # -1 /\ version # z[p].version
    THEN [err |-> "ErrBadVersion", zk |-> z, version |-> -1]
    ELSE [err |-> "nil",
          zk |-> [z EXCEPT ![p] = [data |-> data, version |-> z[p].version + 1]],
          version |-> z[p].version + 1]

\* conn.Create: [err, zk]
zkCreate(z, p, data) ==
    IF p \in DOMAIN z THEN [err |-> "ErrNodeExists", zk |-> z]
    ELSE IF Parent(p) \notin DOMAIN z THEN [err |-> "ErrNoNode", zk |-> z]
    ELSE [err |-> "nil", zk |-> z @@ (p :> [data |-> data, version |-> 0])]

\* conn.Delete: [err, zk]
zkDelete(z, p, version) ==
    IF p \notin DOMAIN z THEN [err |-> "ErrNoNode", zk |-> z]
    ELSE IF version # -1 /\ version # z[p].version THEN [err |-> "ErrBadVersion", zk |-> z]
    ELSE IF ChildNames(z, p) # {} THEN [err |-> "ErrNotEmpty", zk |-> z]
    ELSE [err |-> "nil", zk |-> [q \in DOMAIN z \ {p} |-> z[q]]]

\* conn.Exists: [exists, version]
zkExists(z, p) ==
    IF p \in DOMAIN z THEN [exists |-> TRUE, version |-> z[p].version]
    ELSE [exists |-> FALSE, version |-> -1]

\* conn.Get: [err, data, version]
zkGet(z, p) ==
    IF p \in DOMAIN z THEN [err |-> "nil", data |-> z[p].data, version |-> z[p].version]
    ELSE [err |-> "ErrNoNode", data |-> EmptyData, version |-> -1]

\* conn.Children: [err, names], the names in no particular order
zkChildren(z, p) ==
    IF p \in DOMAIN z THEN [err |-> "nil", names |-> ChildNames(z, p)]
    ELSE [err |-> "ErrNoNode", names |-> {}]

\* the sequences that list every element of a set once
Orderings(S) ==
    {o \in [1..Cardinality(S) -> S] : \A a, b \in 1..Cardinality(S) : a # b => o[a] # o[b]}

(***************************************************************************)
(* Go's order of strings, for the names of the model: WordOrder lists the  *)
(* words in increasing order.                                              *)
(***************************************************************************)
WordOrder == <<"bar", "baz", "buckets", "foo", "v1", "v2">>

Rank(w) == CHOOSE k \in 1..Len(WordOrder) : WordOrder[k] = w

\* a < b for two names of one word each
StrLess(a, b) == Rank(a[1]) < Rank(b[1])

RECURSIVE Insert(_, _)
Insert(x, sorted) ==
    IF sorted = <<>> THEN <<x>>
    ELSE IF StrLess(x, Head(sorted)) THEN <<x>> \o sorted
    ELSE <<Head(sorted)>> \o Insert(x, Tail(sorted))

\* sort.Strings
RECURSIVE SortStrings(_)
SortStrings(ss) == IF ss = <<>> THEN <<>> ELSE Insert(Head(ss), SortStrings(Tail(ss)))

(***************************************************************************)
(* The state of a client's call.                                           *)
(***************************************************************************)
NoIdent == [Location |-> [Category |-> <<>>, Name |-> <<>>], Version |-> <<>>, ZKVersion |-> <<>>]

NoCall == [op |-> "none", ident |-> NoIdent, data |-> EmptyData]

NoRet ==
    [err |-> "nil", found |-> FALSE, ident |-> NoIdent, data |-> EmptyData,
     versions |-> <<>>, locations |-> <<>>]

Remember(h, p, v) == [q \in DOMAIN h \cup {p} |-> IF q = p THEN v ELSE h[q]]

Forget(h, p) == [q \in DOMAIN h \ {p} |-> h[q]]

\* a call returns: the loop state is dropped
Finish(c, r) ==
    /\ pc' = [pc EXCEPT ![c] = "done"]
    /\ ret' = [ret EXCEPT ![c] = r]
    /\ idx' = [idx EXCEPT ![c] = 0]
    /\ pend' = [pend EXCEPT ![c] = <<>>]

CanCall(c) == pc[c] \in {"idle", "done"} /\ nops < MaxOps

Invoke(c, op, ident, data) ==
    /\ call' = [call EXCEPT ![c] = [op |-> op, ident |-> ident, data |-> data]]
    /\ pre' = [pre EXCEPT ![c] = zk]
    /\ nops' = nops + 1

(***************************************************************************)
(* Store.Put.                                                              *)
(***************************************************************************)
\* Put is called: the item is validated and its path computed
PutCall(c, item) ==
    /\ CanCall(c)
    /\ Invoke(c, "Put", item.Ident, item.Data)
    /\ LET ip == identPath(item.Ident)
       IN  IF ItemValidate(item) # "nil"
           THEN /\ Finish(c, [NoRet EXCEPT !.err = ItemValidate(item), !.ident = item.Ident])
                /\ UNCHANGED prevPut
           ELSE IF ip.err # "nil"
           THEN /\ Finish(c, [NoRet EXCEPT !.err = ip.err, !.ident = item.Ident])
                /\ UNCHANGED prevPut
           ELSE /\ pc' = [pc EXCEPT ![c] = "Put_Set"]
                /\ prevPut' = [prevPut EXCEPT ![c] =
                        IF ip.path \in DOMAIN lastPut THEN <<lastPut[ip.path]>> ELSE <<>>]
                /\ UNCHANGED <<ret, idx, pend>>
    /\ UNCHANGED <<zk, lastPut, pvars, hvars, wvars, mvars, fvars, cvars>>

\* the shortcut, conn.Set on the item's path, with the expected version given
PutSetUsing(c, version) ==
    /\ pc[c] = "Put_Set"
    /\ LET ident == call[c].ident
           p     == identPath(ident).path
           r     == zkSet(zk, p, call[c].data, version)
       IN  /\ p \in DOMAIN zk => zk[p].version < MaxVersion
           /\ IF r.err = "ErrNoNode"
              THEN /\ pc' = [pc EXCEPT ![c] = "setFully_Exists"]
                   /\ idx' = [idx EXCEPT ![c] = 0]
                   /\ UNCHANGED <<zk, ret, pend, lastPut>>
              ELSE IF r.err = "ErrBadVersion"
              THEN /\ Finish(c, [NoRet EXCEPT !.err = "ErrVersionConflict", !.ident = ident])
                   /\ UNCHANGED <<zk, lastPut>>
              ELSE /\ zk' = r.zk
                   /\ lastPut' = Remember(lastPut, p, r.version)
                   /\ Finish(c, [NoRet EXCEPT !.ident = SetZKVersion(ident, r.version)])
    /\ UNCHANGED <<call, pre, prevPut, nops, pvars, hvars, wvars, mvars, fvars, cvars>>

\* the shortcut with -1 for the expected version: the znode's version is not checked
PutSet_IgnoresVersion(c) == PutSetUsing(c, -1)

\* Put's conn.Set(identPath, item.Data, item.Ident.actualZKVersion())
PutSet(c) == PutSetUsing(c, actualZKVersion(call[c].ident))

\* setFully without the case that rejects an expected version on a missing znode
rejectsNewVersion_Never(isLast, ident) == FALSE

\* setFully's case isLast && item.Ident.actualZKVersion() >= 0
rejectsNewVersion(isLast, ident) == isLast /\ actualZKVersion(ident) >= 0

\* nodeData without the parent-of-version case: only the last znode gets the data
nodeDataFor_LastOnly(isLast, isParentOfVersion, data) ==
    IF isLast THEN data ELSE EmptyData

\* setFully's nodeData: the payload for the last znode and for the parent of a
\* version, nil for the others
nodeDataFor(isLast, isParentOfVersion, data) ==
    IF isLast \/ isParentOfVersion THEN data ELSE EmptyData

\* strings.Split(identPath, "/") of setFully
Segments(ident) == Split(identPath(ident).path)

\* setFully's current after i + 1 rounds of current = path.Join(current, segment)
Current(ident, i) == Join(<<Root>> \o SubSeq(Segments(ident), 1, i + 1))

\* setFully, one round of the loop: conn.Exists(current)
SetFullyExists(c) ==
    /\ pc[c] = "setFully_Exists"
    /\ LET ident    == call[c].ident
           segments == Segments(ident)
           i        == idx[c]
           isLast   == i = Len(segments) - 1
           e        == zkExists(zk, Current(ident, i))
       IN  IF e.exists
           THEN /\ pc' = [pc EXCEPT ![c] = IF isLast THEN "setFully_mustExist" ELSE "setFully_Exists"]
                /\ idx' = [idx EXCEPT ![c] = IF isLast THEN 0 ELSE i + 1]
                /\ UNCHANGED <<ret, pend>>
           ELSE IF rejectsNewVersion(isLast, ident)
           THEN Finish(c, [NoRet EXCEPT !.err = "ErrVersionConflict", !.ident = ident])
           ELSE /\ pc' = [pc EXCEPT ![c] = "setFully_Create"]
                /\ UNCHANGED <<ret, idx, pend>>
    /\ UNCHANGED <<zk, call, pre, prevPut, nops, lastPut, pvars, hvars, wvars, mvars, fvars, cvars>>

\* setFully that returns every error of conn.Create, zk.ErrNodeExists too
createFailed_AlsoNodeExists(err) == err # "nil"

\* setFully's err != nil && err != zk.ErrNodeExists after conn.Create
createFailed(err) == err # "nil" /\ err # "ErrNodeExists"

\* setFully, the same round: conn.Create(current, nodeData)
SetFullyCreate(c) ==
    /\ pc[c] = "setFully_Create"
    /\ LET ident    == call[c].ident
           segments == Segments(ident)
           i        == idx[c]
           isLast   == i = Len(segments) - 1
           isParentOfVersion == ident.Version # <<>> /\ i = Len(segments) - 2
           nodeData == nodeDataFor(isLast, isParentOfVersion, call[c].data)
           r        == zkCreate(zk, Current(ident, i), nodeData)
       IN  IF createFailed(r.err)
           THEN /\ Finish(c, [NoRet EXCEPT !.err = r.err, !.ident = ident])
                /\ UNCHANGED zk
           ELSE /\ zk' = r.zk
                /\ pc' = [pc EXCEPT ![c] = IF isLast THEN "setFully_mustExist" ELSE "setFully_Exists"]
                /\ idx' = [idx EXCEPT ![c] = IF isLast THEN 0 ELSE i + 1]
                /\ UNCHANGED <<ret, pend>>
    /\ UNCHANGED <<call, pre, prevPut, nops, lastPut, pvars, hvars, wvars, mvars, fvars, cvars>>

\* setFully's mustExist(identPath), and Put's SetZKVersion(stat.Version)
SetFullyMustExist(c) ==
    /\ pc[c] = "setFully_mustExist"
    /\ LET ident == call[c].ident
           p     == identPath(ident).path
           e     == zkExists(zk, p)
       IN  IF ~e.exists
           THEN /\ Finish(c, [NoRet EXCEPT !.err = "was not created", !.ident = ident])
                /\ UNCHANGED lastPut
           ELSE /\ Finish(c, [NoRet EXCEPT !.ident = SetZKVersion(ident, e.version)])
                /\ lastPut' = Remember(lastPut, p, e.version)
    /\ UNCHANGED <<zk, call, pre, prevPut, nops, pvars, hvars, wvars, mvars, fvars, cvars>>

(***************************************************************************)
(* Store.Get, Store.Versions.                                              *)
(***************************************************************************)
\* Get without item.Ident.SetZKVersion(stat.Version)
StoreGet_KeepsVersion(z, ident) ==
    LET ip == identPath(ident)
        g  == zkGet(z, ip.path)
    IN  IF IdentValidate(ident) # "nil" THEN [NoRet EXCEPT !.err = IdentValidate(ident)]
        ELSE IF ip.err # "nil" THEN [NoRet EXCEPT !.err = ip.err]
        ELSE IF g.err = "ErrNoNode" THEN NoRet
        ELSE [NoRet EXCEPT !.ident = ident, !.data = g.data, !.found = TRUE]

\* Get with zk.ErrNoNode returned to the caller
StoreGet_AbsentIsError(z, ident) ==
    LET ip == identPath(ident)
        g  == zkGet(z, ip.path)
    IN  IF IdentValidate(ident) # "nil" THEN [NoRet EXCEPT !.err = IdentValidate(ident)]
        ELSE IF ip.err # "nil" THEN [NoRet EXCEPT !.err = ip.err]
        ELSE IF g.err # "nil" THEN [NoRet EXCEPT !.err = g.err]
        ELSE [NoRet EXCEPT !.ident = SetZKVersion(ident, g.version),
                           !.data = g.data, !.found = TRUE]

\* what Get returns on the znodes z
StoreGet(z, ident) ==
    LET ip == identPath(ident)
        g  == zkGet(z, ip.path)
    IN  IF IdentValidate(ident) # "nil" THEN [NoRet EXCEPT !.err = IdentValidate(ident)]
        ELSE IF ip.err # "nil" THEN [NoRet EXCEPT !.err = ip.err]
        ELSE IF g.err = "ErrNoNode" THEN NoRet
        ELSE [NoRet EXCEPT !.ident = SetZKVersion(ident, g.version),
                           !.data = g.data, !.found = TRUE]

Get(c, ident) ==
    /\ CanCall(c)
    /\ Invoke(c, "Get", ident, EmptyData)
    /\ Finish(c, StoreGet(zk, ident))
    /\ UNCHANGED <<zk, prevPut, lastPut, pvars, hvars, wvars, mvars, fvars, cvars>>

\* Versions with found set also when the item's znode is missing
StoreVersions_AlwaysFound(z, location, raw) ==
    LET ident == [NoIdent EXCEPT !.Location = location]
        ip    == identPath(ident)
    IN  IF LocationValidate(location) # "nil" THEN [NoRet EXCEPT !.err = LocationValidate(location)]
        ELSE IF ip.err # "nil" THEN [NoRet EXCEPT !.err = ip.err]
        ELSE [NoRet EXCEPT !.versions = SortStrings(raw), !.found = TRUE]

\* what Versions returns on the znodes z, when conn.Children lists the names as raw
StoreVersions(z, location, raw) ==
    LET ident == [NoIdent EXCEPT !.Location = location]
        ip    == identPath(ident)
        ch    == zkChildren(z, ip.path)
    IN  IF LocationValidate(location) # "nil" THEN [NoRet EXCEPT !.err = LocationValidate(location)]
        ELSE IF ip.err # "nil" THEN [NoRet EXCEPT !.err = ip.err]
        ELSE IF ch.err = "ErrNoNode" THEN NoRet
        ELSE [NoRet EXCEPT !.versions = SortStrings(raw), !.found = TRUE]

\* the orders in which conn.Children may list the children of the item's znode
RawVersions(z, location) ==
    LET ip == identPath([NoIdent EXCEPT !.Location = location])
    IN  IF ip.err = "nil" THEN Orderings(zkChildren(z, ip.path).names) ELSE {<<>>}

Versions(c, location) ==
    /\ CanCall(c)
    /\ Invoke(c, "Versions", [NoIdent EXCEPT !.Location = location], EmptyData)
    /\ \E raw \in RawVersions(zk, location) : Finish(c, StoreVersions(zk, location, raw))
    /\ UNCHANGED <<zk, prevPut, lastPut, pvars, hvars, wvars, mvars, fvars, cvars>>

(***************************************************************************)
(* Store.Delete.                                                           *)
(***************************************************************************)
\* deleteVersion with zk.ErrNoNode returned to the caller
deleteVersion_AbsentIsError(z, ident) ==
    LET ip == identPath(ident)
        r  == zkDelete(z, ip.path, actualZKVersion(ident))
    IN  IF ip.err # "nil" THEN [err |-> ip.err, found |-> FALSE, zk |-> z, path |-> <<>>]
        ELSE IF r.err = "ErrBadVersion"
        THEN [err |-> "ErrVersionConflict", found |-> FALSE, zk |-> z, path |-> ip.path]
        ELSE [err |-> r.err, found |-> r.err = "nil", zk |-> r.zk, path |-> ip.path]

\* deleteVersion that passes -1 to conn.Delete: the expected version is ignored
deleteVersion_Unconditional(z, ident) ==
    LET ip == identPath(ident)
        r  == zkDelete(z, ip.path, -1)
    IN  IF ip.err # "nil" THEN [err |-> ip.err, found |-> FALSE, zk |-> z, path |-> <<>>]
        ELSE IF r.err = "ErrNoNode" THEN [err |-> "nil", found |-> FALSE, zk |-> z, path |-> ip.path]
        ELSE [err |-> r.err, found |-> TRUE, zk |-> r.zk, path |-> ip.path]

\* deleteVersion that reports a deletion and deletes nothing
deleteVersion_DeletesNothing(z, ident) ==
    [err |-> "nil", found |-> TRUE, zk |-> z, path |-> identPath(ident).path]

\* deleteVersion on the znodes z: [err, found, zk, path]
deleteVersion(z, ident) ==
    LET ip == identPath(ident)
        r  == zkDelete(z, ip.path, actualZKVersion(ident))
    IN  IF ip.err # "nil" THEN [err |-> ip.err, found |-> FALSE, zk |-> z, path |-> <<>>]
        ELSE IF r.err = "ErrNoNode" THEN [err |-> "nil", found |-> FALSE, zk |-> z, path |-> ip.path]
        ELSE IF r.err = "ErrBadVersion"
        THEN [err |-> "ErrVersionConflict", found |-> FALSE, zk |-> z, path |-> ip.path]
        ELSE [err |-> r.err, found |-> TRUE, zk |-> r.zk, path |-> ip.path]

\* lastPut after a deleteVersion with result r
Forgotten(r) == IF r.zk # zk THEN Forget(lastPut, r.path) ELSE lastPut

\* Delete is called: an Ident with a Version is deleted by deleteVersion; for one
\* without, deleteItem starts by listing the item's versions
Delete(c, ident) ==
    /\ CanCall(c)
    /\ Invoke(c, "Delete", ident, EmptyData)
    /\ IF IdentValidate(ident) # "nil"
       THEN /\ Finish(c, [NoRet EXCEPT !.err = IdentValidate(ident)])
            /\ UNCHANGED <<zk, lastPut>>
       ELSE IF ident.Version # <<>>
       THEN LET r == deleteVersion(zk, ident)
            IN  /\ Finish(c, [NoRet EXCEPT !.err = r.err, !.found = r.found])
                /\ zk' = r.zk
                /\ lastPut' = Forgotten(r)
       ELSE \E raw \in RawVersions(zk, ident.Location) :
              LET v == StoreVersions(zk, ident.Location, raw)
              IN  /\ IF v.err # "nil" \/ ~v.found
                     THEN Finish(c, [NoRet EXCEPT !.err = v.err, !.found = v.found])
                     ELSE /\ pc' = [pc EXCEPT ![c] = "deleteItem_versions"]
                          /\ pend' = [pend EXCEPT ![c] = v.versions]
                          /\ UNCHANGED <<ret, idx>>
                  /\ UNCHANGED <<zk, lastPut>>
    /\ UNCHANGED <<prevPut, pvars, hvars, wvars, mvars, fvars, cvars>>

\* deleteItem's loop: the next version is deleted whatever its zk version
DeleteItemVersion(c) ==
    /\ pc[c] = "deleteItem_versions"
    /\ pend[c] # <<>>
    /\ LET versionIdent == [call[c].ident EXCEPT !.Version = Head(pend[c]), !.ZKVersion = <<>>]
           r == deleteVersion(zk, versionIdent)
       IN  /\ zk' = r.zk
           /\ lastPut' = Forgotten(r)
           /\ IF r.err # "nil"
              THEN Finish(c, [NoRet EXCEPT !.err = r.err, !.found = TRUE])
              ELSE /\ pend' = [pend EXCEPT ![c] = Tail(pend[c])]
                   /\ UNCHANGED <<pc, ret, idx>>
    /\ UNCHANGED <<call, pre, prevPut, nops, pvars, hvars, wvars, mvars, fvars, cvars>>

\* every error of the item's own deletion taken for success
parentDeleteErr_Swallows(e) == "nil"

\* deleteItem's switch on the error of the item's own deletion
parentDeleteErr(e) ==
    IF e = "ErrNoNode" THEN "nil"
    ELSE IF e = "ErrBadVersion" THEN "ErrVersionConflict"
    ELSE e

\* deleteItem that returns after the loop and leaves the item's own znode
DeleteItemParent_Skips(c) ==
    /\ pc[c] = "deleteItem_versions"
    /\ pend[c] = <<>>
    /\ Finish(c, [NoRet EXCEPT !.found = TRUE])
    /\ UNCHANGED <<zk, lastPut, call, pre, prevPut, nops, pvars, hvars, wvars, mvars, fvars, cvars>>

\* deleteItem, after the loop: the item's own znode is deleted
DeleteItemParent(c) ==
    /\ pc[c] = "deleteItem_versions"
    /\ pend[c] = <<>>
    /\ LET ident == call[c].ident
           ip == identPath(ident)
           r  == zkDelete(zk, ip.path, actualZKVersion(ident))
       IN  /\ zk' = r.zk
           /\ lastPut' = IF r.err = "nil" THEN Forget(lastPut, ip.path) ELSE lastPut
           /\ Finish(c, [NoRet EXCEPT !.err = parentDeleteErr(r.err), !.found = TRUE])
    /\ UNCHANGED <<call, pre, prevPut, nops, pvars, hvars, wvars, mvars, fvars, cvars>>

(***************************************************************************)
(* Store.List.                                                             *)
(***************************************************************************)
RECURSIVE InsertByName(_, _)
InsertByName(x, sorted) ==
    IF sorted = <<>> THEN <<x>>
    ELSE IF StrLess(x.Name, Head(sorted).Name) THEN <<x>> \o sorted
    ELSE <<Head(sorted)>> \o InsertByName(x, Tail(sorted))

\* List without the sort: the Locations in the order the buckets gave them
sortLocations_Skipped(locations) == locations

\* sort.Slice(locations, ...) by Name
RECURSIVE sortLocations(_)
sortLocations(locations) ==
    IF locations = <<>> THEN <<>>
    ELSE InsertByName(Head(locations), sortLocations(Tail(locations)))

\* the Location List makes of a child of a bucket
RECURSIVE LocationsOf(_, _)
LocationsOf(category, children) ==
    IF children = <<>> THEN <<>>
    ELSE LET pieces == Split(Head(children))
         IN  <<[Category |-> category, Name |-> pieces[Len(pieces)]]>>
             \o LocationsOf(category, Tail(children))

\* List is called: the category is validated, and the buckets are listed
ListCall(c, category) ==
    /\ CanCall(c)
    /\ Invoke(c, "List", [NoIdent EXCEPT !.Location.Category = category], EmptyData)
    /\ LET bp == bucketsPath(category)
           ch == zkChildren(zk, bp.path)
       IN  IF validateCategory(category) # "nil"
           THEN Finish(c, [NoRet EXCEPT !.err = "invalid category"])
           ELSE IF bp.err # "nil"
           THEN Finish(c, [NoRet EXCEPT !.err = bp.err])
           ELSE IF ch.err = "ErrNoNode"
           THEN Finish(c, NoRet)
           ELSE \E buckets \in Orderings(ch.names) :
                  /\ pc' = [pc EXCEPT ![c] = "List_buckets"]
                  /\ pend' = [pend EXCEPT ![c] = buckets]
                  /\ ret' = [ret EXCEPT ![c] = [NoRet EXCEPT !.found = TRUE]]
                  /\ UNCHANGED idx
    /\ UNCHANGED <<zk, prevPut, lastPut, pvars, hvars, wvars, mvars, fvars, cvars>>

\* List that returns zk.ErrNoNode of a bucket's conn.Children to the caller
ListBucket_MissingIsError(c) ==
    /\ pc[c] = "List_buckets"
    /\ pend[c] # <<>>
    /\ LET category == call[c].ident.Location.Category
           ch == zkChildren(zk, Join(<<bucketsPath(category).path, Head(pend[c])>>))
       IN  IF ch.err = "ErrNoNode"
           THEN Finish(c, [ret[c] EXCEPT !.err = "ErrNoNode"])
           ELSE /\ \E children \in Orderings(ch.names) :
                     ret' = [ret EXCEPT ![c].locations = @ \o LocationsOf(category, children)]
                /\ pend' = [pend EXCEPT ![c] = Tail(pend[c])]
                /\ UNCHANGED <<pc, idx>>
    /\ UNCHANGED <<zk, call, pre, prevPut, nops, lastPut, pvars, hvars, wvars, mvars, fvars, cvars>>

\* List's loop: the children of the next bucket are listed; a bucket that is
\* gone is skipped
ListBucket(c) ==
    /\ pc[c] = "List_buckets"
    /\ pend[c] # <<>>
    /\ LET category == call[c].ident.Location.Category
           ch == zkChildren(zk, Join(<<bucketsPath(category).path, Head(pend[c])>>))
       IN  IF ch.err = "ErrNoNode"
           THEN UNCHANGED ret
           ELSE \E children \in Orderings(ch.names) :
                  ret' = [ret EXCEPT ![c].locations = @ \o LocationsOf(category, children)]
    /\ pend' = [pend EXCEPT ![c] = Tail(pend[c])]
    /\ UNCHANGED <<zk, pc, call, idx, pre, prevPut, nops, lastPut, pvars, hvars, wvars, mvars, fvars, cvars>>

\* List, after the loop: the Locations are sorted and returned
ListReturn(c) ==
    /\ pc[c] = "List_buckets"
    /\ pend[c] = <<>>
    /\ Finish(c, [ret[c] EXCEPT !.locations = sortLocations(@)])
    /\ UNCHANGED <<zk, call, pre, prevPut, nops, lastPut, pvars, hvars, wvars, mvars, fvars, cvars>>

(***************************************************************************)
(* The calls the clients make.                                             *)
(***************************************************************************)
Data1 == [bytes |-> "d1", len |-> 2]

Data2 == [bytes |-> "d2", len |-> 2]

\* a payload of one byte more than Item.Validate accepts
DataBig == [bytes |-> "big", len |-> MaxDataLen + 1]

Widgets == <<"widgets">>

Foo == [Category |-> Widgets, Name |-> <<"foo">>]

Bar == [Category |-> Widgets, Name |-> <<"bar">>]

\* nil, and every version a znode of the model can have
ZKVersions == {<<>>} \cup {<<v>> : v \in 0..MaxVersion}

\* the item foo and its versions v1 and v2, and the item bar
ValidIdents ==
    {[Location |-> Foo, Version |-> v, ZKVersion |-> z] :
        v \in {<<>>, <<"v1">>, <<"v2">>}, z \in ZKVersions}
    \cup {[Location |-> Bar, Version |-> <<>>, ZKVersion |-> z] : z \in ZKVersions}

\* a blank name, a category that ends with the buckets znode name, a version
\* with a separator in it
InvalidIdents ==
    { [NoIdent EXCEPT !.Location = [Category |-> Widgets, Name |-> <<>>]],
      [NoIdent EXCEPT !.Location = [Category |-> <<"foo", "/", "buckets">>, Name |-> <<"foo">>]],
      [NoIdent EXCEPT !.Location = Foo, !.Version = <<"v1", "/", "v2">>] }

Idents == ValidIdents \cup InvalidIdents

\* the category of the items, one that ends with the buckets znode name, a blank
\* one
Categories == {Widgets, <<"foo", "/", "buckets">>, <<" ">>}

Items ==
    {[Ident |-> i, Data |-> d] : i \in Idents, d \in {Data1, Data2}}
    \cup {[Ident |-> [NoIdent EXCEPT !.Location = Foo], Data |-> DataBig]}

(***************************************************************************)
(* The promise (future.go): NewPromise's closures complete, onComplete and *)
(* onPanic over the state they share, called from several goroutines.      *)
(* A listener is known by its name; the ones named in Panicking panic.     *)
(***************************************************************************)
Goroutines == {"g1", "g2", "g3"}

nil == "nil"

\* context.Canceled
Canceled == "Canceled"

Values == {"x"}

Errors == {"e1"}

\* the synchronous completers a promise can be constructed with
Completers == {"s1", "s2", "sbad"}

\* the listeners OnComplete is called with
Listeners == {"a", "b", "bad"}

\* the handlers OnPanic is called with
Handlers == {"h"}

Panicking == {"sbad", "bad"}

Panics(fn) == fn \in Panicking

NoArg == [op |-> "none", v |-> nil, err |-> nil, fn |-> nil]

\* the state NewPromise leaves, given the completers its options configure
NewPromise(completers) ==
    /\ f = [done |-> FALSE, v |-> nil, err |-> nil]
    /\ m = ""
    /\ callbacks = <<>>
    /\ completed = 0
    /\ panicHandler = nil
    /\ options = [completers |-> completers]
    /\ gpc = [g \in Goroutines |-> "idle"]
    /\ garg = [g \in Goroutines |-> NoArg]
    /\ gi = [g \in Goroutines |-> 0]
    /\ gpanic = [g \in Goroutines |-> FALSE]
    /\ tasks = <<>>
    /\ log = <<>>
    /\ effective = <<>>
    /\ ignored = <<>>
    /\ closes = 0
    /\ ncalls = 0
    /\ crashed = FALSE
    /\ registered = <<>>

\* future.Value
FutureValue_Unguarded == f.v

FutureValue == IF f.done THEN f.v ELSE nil

\* future.Err
FutureErr == IF f.done THEN f.err ELSE nil

\* a goroutine may start a call
CanStart(g) == gpc[g] = "idle" /\ ncalls < MaxCalls /\ ~crashed

Running(g, at) == gpc[g] = at /\ ~crashed

Start(g, op, v, err, fn, at) ==
    /\ CanStart(g)
    /\ garg' = [garg EXCEPT ![g] = [op |-> op, v |-> v, err |-> err, fn |-> fn]]
    /\ gpc' = [gpc EXCEPT ![g] = at]
    /\ ncalls' = ncalls + 1
    /\ UNCHANGED <<f, m, callbacks, completed, panicHandler, options, gi, gpanic,
                   tasks, log, effective, ignored, closes, crashed, registered, svars, hvars, wvars, mvars, fvars, cvars>>

\* promise.Complete, promise.Value, promise.Error, promise.Cancel: each is
\* a call of complete
PromiseComplete(g, v, err) == Start(g, "Complete", v, err, nil, "complete_load")

PromiseValue(g, v) == Start(g, "Value", v, nil, nil, "complete_load")

PromiseError(g, err) == Start(g, "Error", nil, err, nil, "complete_load")

PromiseCancel(g) == Start(g, "Cancel", nil, Canceled, nil, "complete_load")

PromiseOnComplete(g, fn) == Start(g, "OnComplete", nil, nil, fn, "onComplete_load")

PromiseOnPanic(g, fn) == Start(g, "OnPanic", nil, nil, fn, "onPanic_load")

\* a call returns, its arguments are dropped
Leave(g, at) ==
    /\ gpc' = [gpc EXCEPT ![g] = at]
    /\ garg' = [garg EXCEPT ![g] = NoArg]

Return(g) == Leave(g, "idle")

\* a call of complete returns without having stored its value and error
Ignore(g, at) ==
    /\ Return(g)
    /\ ignored' = Append(ignored, [v |-> garg[g].v, err |-> garg[g].err, at |-> at])

\* complete: the load of completed before the lock
CompleteLoad(g) ==
    /\ Running(g, "complete_load")
    /\ IF completed = 1
       THEN Ignore(g, "load")
       ELSE gpc' = [gpc EXCEPT ![g] = "complete_lock"] /\ UNCHANGED <<garg, ignored>>
    /\ UNCHANGED <<f, m, callbacks, completed, panicHandler, options, gi, gpanic,
                   tasks, log, effective, closes, ncalls, crashed, registered, svars, hvars, wvars, mvars, fvars, cvars>>

\* the load of completed under the lock
recheckCompleted_Never == FALSE

recheckCompleted == completed = 1

\* the goroutine complete starts for the listeners registered so far
listenersTask_NoWait(cb2, v, err) ==
    [fns |-> cb2, v |-> v, err |-> err, next |-> 1, wait |-> FALSE]

listenersTask(cb2, v, err) == [fns |-> cb2, v |-> v, err |-> err, next |-> 1, wait |-> TRUE]

\* the goroutine onComplete starts for a listener of a completed promise
listenerTask(fn) == [fns |-> <<fn>>, v |-> f.v, err |-> f.err, next |-> 1, wait |-> FALSE]

\* complete: m.Lock, the second load, the stores of v and err, the go
\* statement; the deferred calls are left to run
CompleteLock(g) ==
    /\ Running(g, "complete_lock")
    /\ m = ""
    /\ IF recheckCompleted
       THEN /\ Ignore(g, "lock")
            /\ UNCHANGED <<f, m, gi, tasks, effective>>
       ELSE /\ m' = g
            /\ f' = [f EXCEPT !.v = garg[g].v, !.err = garg[g].err]
            /\ effective' = Append(effective, [g |-> g, op |-> garg[g].op,
                                               v |-> garg[g].v, err |-> garg[g].err])
            /\ gi' = [gi EXCEPT ![g] = 1]
            /\ tasks' = IF Len(callbacks) > 0
                        THEN Append(tasks, listenersTask(callbacks, garg[g].v, garg[g].err))
                        ELSE tasks
            /\ gpc' = [gpc EXCEPT ![g] = "complete_defers"]
            /\ UNCHANGED <<garg, ignored>>
    /\ UNCHANGED <<callbacks, completed, panicHandler, options, gpanic,
                   log, closes, ncalls, crashed, registered, svars, hvars, wvars, mvars, fvars, cvars>>

\* an entry of the log: fn was called with (v, err), or with the Panic
\* {recovered, v, err}, by a goroutine (by a started one: "go", and task
\* tells which) while f.done was closed or not
Event(kind, fn, v, err, by, recovered) ==
    [kind |-> kind, fn |-> fn, v |-> v, err |-> err, by |-> by,
     recovered |-> recovered, done |-> f.done, task |-> 0]

\* what a panicking listener panics with
PanicOf(fn) == <<"panic", fn>>

\* a loop that defers the completers from the first to the last
deferredCompleter_FirstToLast(completers, k) == completers[Len(completers) - k + 1]

\* the completer of the k-th deferred call to run: the loop defers them from
\* the last to the first, and deferred calls run last in, first out
deferredCompleter(completers, k) == completers[k]

\* a deferred recovery that never recovers
recovers_Never(handler) == FALSE

\* a deferred recovery that recovers also when no handler is installed
recovers_Always(handler) == TRUE

\* the deferred recovery around a completer returns without recovering when
\* no panic handler is installed
recovers(handler) == handler # nil

\* complete returns: the deferred call of the next completer, and the
\* panic handler when the completer panics and a handler is installed
CompleteDefer(g) ==
    /\ Running(g, "complete_defers")
    /\ gi[g] <= Len(options.completers)
    /\ LET cf == deferredCompleter(options.completers, gi[g])
           called == Append(log, Event("sync", cf, garg[g].v, garg[g].err, g, nil))
       IN  IF ~Panics(cf)
           THEN log' = called /\ UNCHANGED gpanic
           ELSE IF recovers(panicHandler)
                THEN /\ log' = Append(called, Event("panic", panicHandler, garg[g].v,
                                                    garg[g].err, g, PanicOf(cf)))
                     /\ UNCHANGED gpanic
                ELSE /\ log' = called
                     /\ gpanic' = [gpanic EXCEPT ![g] = TRUE]
    /\ gi' = [gi EXCEPT ![g] = gi[g] + 1]
    /\ UNCHANGED <<f, m, callbacks, completed, panicHandler, options, gpc, garg,
                   tasks, effective, ignored, closes, ncalls, crashed, registered, svars, hvars, wvars, mvars, fvars, cvars>>

\* the first deferred call, which runs last: callbacks = callbacks[:0] and
\* close(f.done)
CompleteClose(g) ==
    /\ Running(g, "complete_defers")
    /\ gi[g] > Len(options.completers)
    /\ callbacks' = <<>>
    /\ f' = [f EXCEPT !.done = TRUE]
    /\ closes' = closes + 1
    /\ gpc' = [gpc EXCEPT ![g] = "complete_store"]
    /\ UNCHANGED <<m, completed, panicHandler, options, garg, gi, gpanic,
                   tasks, log, effective, ignored, ncalls, crashed, registered, svars, hvars, wvars, mvars, fvars, cvars>>

\* atomic.StoreInt32(&completed, 1)
CompleteStore(g) ==
    /\ Running(g, "complete_store")
    /\ completed' = 1
    /\ gpc' = [gpc EXCEPT ![g] = "complete_unlock"]
    /\ UNCHANGED <<f, m, callbacks, panicHandler, options, garg, gi, gpanic,
                   tasks, log, effective, ignored, closes, ncalls, crashed, registered, svars, hvars, wvars, mvars, fvars, cvars>>

\* m.Unlock; the call returns, or the panic of a completer leaves it
CompleteUnlock(g) ==
    /\ Running(g, "complete_unlock")
    /\ m' = ""
    /\ Leave(g, IF gpanic[g] THEN "panicked" ELSE "idle")
    /\ UNCHANGED <<f, callbacks, completed, panicHandler, options, gi, gpanic,
                   tasks, log, effective, ignored, closes, ncalls, crashed, registered, svars, hvars, wvars, mvars, fvars, cvars>>

\* onComplete: the load of completed before the lock
OnCompleteLoad(g) ==
    /\ Running(g, "onComplete_load")
    /\ IF completed = 1
       THEN tasks' = Append(tasks, listenerTask(garg[g].fn)) /\ Return(g)
       ELSE gpc' = [gpc EXCEPT ![g] = "onComplete_lock"] /\ UNCHANGED <<tasks, garg>>
    /\ UNCHANGED <<f, m, callbacks, completed, panicHandler, options, gi, gpanic,
                   log, effective, ignored, closes, ncalls, crashed, registered, svars, hvars, wvars, mvars, fvars, cvars>>

\* onComplete's load of completed under the lock
lockedCompleted_Never == FALSE

lockedCompleted == completed = 1

\* onComplete: m.Lock, the second load, the append, m.Unlock
OnCompleteLock(g) ==
    /\ Running(g, "onComplete_lock")
    /\ m = ""
    /\ IF lockedCompleted
       THEN /\ tasks' = Append(tasks, listenerTask(garg[g].fn))
            /\ UNCHANGED <<callbacks, registered>>
       ELSE /\ callbacks' = Append(callbacks, garg[g].fn)
            /\ registered' = Append(registered, garg[g].fn)
            /\ UNCHANGED tasks
    /\ Return(g)
    /\ UNCHANGED <<f, m, completed, panicHandler, options, gi, gpanic,
                   log, effective, ignored, closes, ncalls, crashed, svars, hvars, wvars, mvars, fvars, cvars>>

\* onPanic: the load of completed before the lock
OnPanicLoad(g) ==
    /\ Running(g, "onPanic_load")
    /\ IF completed = 1
       THEN Return(g)
       ELSE gpc' = [gpc EXCEPT ![g] = "onPanic_lock"] /\ UNCHANGED garg
    /\ UNCHANGED <<f, m, callbacks, completed, panicHandler, options, gi, gpanic,
                   tasks, log, effective, ignored, closes, ncalls, crashed, registered, svars, hvars, wvars, mvars, fvars, cvars>>

\* onPanic: m.Lock, the second load, the store of the handler, m.Unlock
OnPanicLock(g) ==
    /\ Running(g, "onPanic_lock")
    /\ m = ""
    /\ panicHandler' = IF completed = 1 THEN panicHandler ELSE garg[g].fn
    /\ Return(g)
    /\ UNCHANGED <<f, m, callbacks, completed, options, gi, gpanic,
                   tasks, log, effective, ignored, closes, ncalls, crashed, registered, svars, hvars, wvars, mvars, fvars, cvars>>

\* a goroutine the promise started calls its next listener: the one complete
\* started waits for f.done and recovers a panic when a handler is
\* installed, which ends it; any other panic ends the program
\* the listener a started goroutine would call next, were the loop to go on
\* after a panic
afterPanic_NextListener(t) == tasks[t].next + 1

\* where a started goroutine stands after a recovered panic: the panic has
\* unwound the loop over cb2, the deferred function runs and the goroutine ends
afterPanic(t) == Len(tasks[t].fns) + 1

TaskStep(t) ==
    /\ ~crashed
    /\ tasks[t].next <= Len(tasks[t].fns)
    /\ tasks[t].wait => f.done
    /\ LET fn == tasks[t].fns[tasks[t].next]
           called == Append(log, [Event("async", fn, tasks[t].v, tasks[t].err, "go", nil)
                                    EXCEPT !.task = t])
       IN  IF ~Panics(fn)
           THEN /\ log' = called
                /\ tasks' = [tasks EXCEPT ![t].next = @ + 1]
                /\ UNCHANGED crashed
           ELSE IF tasks[t].wait /\ panicHandler # nil
                THEN /\ log' = Append(called, [Event("panic", panicHandler, tasks[t].v,
                                                     tasks[t].err, "go", PanicOf(fn))
                                                 EXCEPT !.task = t])
                     /\ tasks' = [tasks EXCEPT ![t].next = afterPanic(t)]
                     /\ UNCHANGED crashed
                ELSE /\ log' = called
                     /\ crashed' = TRUE
                     /\ UNCHANGED tasks
    /\ UNCHANGED <<f, m, callbacks, completed, panicHandler, options, gpc, garg, gi,
                   gpanic, effective, ignored, closes, ncalls, registered, svars, hvars, wvars, mvars, fvars, cvars>>

(***************************************************************************)
(* Store.bucketFor, step by step, on a Store with numBuckets hash buckets  *)
(* and for one name: a hash.Hash is obtained and the name written to it;   *)
(* then its Sum is folded into a bucket number. The hash provider is a     *)
(* function of what was written: the digest of a content is any value the  *)
(* first time, and that value from then on.                                *)
(***************************************************************************)
Digests == (-(MaxDigest + 1))..MaxDigest

\* no bucketFor is under way, none was called
\* the positions of the futures given to JoinContext
Inputs == 1..MaxInputs

NoInput == [kind |-> "nil", done |-> FALSE, v |-> "nil", err |-> "nil"]

NoOut == [is |-> "none", v |-> "nil", err |-> "nil"]

\* Flatten is not called
NoFlatten == [pc |-> "idle", v |-> "nil", err |-> "nil", out |-> NoOut, saw |-> <<>>]

\* JoinContext is not called
NoMerging ==
    /\ ins = [i \in Inputs |-> NoInput]
    /\ mctx = "nil"
    /\ merger = [kind |-> "Discard", error |-> "nil"]
    /\ jpc = "idle"
    /\ mpc = "idle"
    /\ mgo = [i \in Inputs |-> "none"]
    /\ mm = 0
    /\ mcalls = <<>>
    /\ mres = [v |-> "nil", err |-> "nil"]

\* the goroutines that call the cache
Callers == {"g1", "g2"}

NoCacheRet == [v |-> "nil", ok |-> FALSE, size |-> 0, objects |-> <<>>]

NoCacheCall ==
    [pc |-> "idle", op |-> "none", key |-> "", val |-> "nil", m |-> <<>>,
     in |-> "none", raced |-> FALSE, ret |-> NoCacheRet]

\* SimpleCache(): an empty map, the mutex free; no caller has called
NewCache(kind) ==
    /\ cache = [kind |-> kind, objects |-> <<>>, w |-> FALSE, r |-> 0, fatal |-> FALSE]
    /\ cg = [g \in Callers |-> NoCacheCall]
    /\ ccalls = 0

NoCaching == NewCache("cacheImpl")

Waiters == {"w1", "w2"}

NoWait == [op |-> "none", on |-> "none", early |-> FALSE]

NoResult == [v |-> "nil", err |-> "nil", by |-> "none", done |-> FALSE]

\* no waiter has called, no cancellation source has fired
NoWaiting ==
    /\ wpc = [w \in Waiters |-> "idle"]
    /\ wcall = [w \in Waiters |-> NoWait]
    /\ wret = [w \in Waiters |-> NoResult]
    /\ cancel = [w \in Waiters |-> "nil"]
    /\ src = "nil"
    /\ nwaits = 0
    /\ NoMerging
    /\ flat = NoFlatten
    /\ NoCaching

NoHashing ==
    /\ numBuckets = hashBuckets
    /\ hasher = 0
    /\ sums = <<>>
    /\ hpc = "idle"
    /\ hashed = <<>>
    /\ NoWaiting

\* a hash provider that hands out the hash.Hash of the call before
hashProviderFunc_Shared(h) == h

\* s.hashProviderFunc(): a new hash.Hash, nothing written to it
hashProviderFunc(h) == 0

\* bucketFor: hasher := s.hashProviderFunc(); hasher.Write([]byte(name))
BucketForWrite ==
    /\ hpc = "idle"
    /\ Len(hashed) < MaxHashCalls
    /\ hasher' = hashProviderFunc(hasher) + 1
    /\ hpc' = "written"
    /\ UNCHANGED <<numBuckets, sums, hashed, svars, pvars, wvars, mvars, fvars, cvars>>

\* bucketFor: hash := hasher.Sum(nil); return s.hashBytesToBucket(hash)
BucketForSum ==
    /\ hpc = "written"
    /\ \E res \in (IF hasher \in DOMAIN sums THEN {sums[hasher]} ELSE Digests) :
          /\ sums' = (hasher :> res) @@ sums
          /\ hashed' = Append(hashed, [res |-> res,
                                       bucket |-> hashBytesToBucketOf(numBuckets, res)])
    /\ hpc' = "idle"
    /\ UNCHANGED <<numBuckets, hasher, svars, pvars, wvars, mvars, fvars, cvars>>

(***************************************************************************)
(* The sequential specification: one client, one call at a time.           *)
(***************************************************************************)
\* only the root znode
EmptyStore == (Root :> [data |-> EmptyData, version |-> 0])

\* the ancestors of a path, the root excluded
RECURSIVE Ancestors(_)
Ancestors(p) == IF Parent(p) = Root THEN {} ELSE {Parent(p)} \cup Ancestors(Parent(p))

FooPath(version) == identPath([NoIdent EXCEPT !.Location = Foo, !.Version = version]).path

\* the znodes after Put(foo, d2), Put(foo, d1), Put(foo/v1, d2), Put(foo/v2, d2),
\* Put(foo/v2, d1) on the empty store, and the versions these Puts returned last
SeededStore ==
    [p \in {Root} \cup Ancestors(FooPath(<<>>)) |-> [data |-> EmptyData, version |-> 0]]
    @@ (FooPath(<<>>) :> [data |-> Data1, version |-> 1])
    @@ (FooPath(<<"v1">>) :> [data |-> Data2, version |-> 0])
    @@ (FooPath(<<"v2">>) :> [data |-> Data1, version |-> 1])

SeededLastPut ==
    (FooPath(<<>>) :> 1) @@ (FooPath(<<"v1">>) :> 0) @@ (FooPath(<<"v2">>) :> 1)

\* clients that have called nothing
InitClients ==
    /\ pc = [c \in Clients |-> "idle"]
    /\ call = [c \in Clients |-> NoCall]
    /\ idx = [c \in Clients |-> 0]
    /\ pend = [c \in Clients |-> <<>>]
    /\ ret = [c \in Clients |-> NoRet]
    /\ pre = [c \in Clients |-> zk]
    /\ prevPut = [c \in Clients |-> <<>>]
    /\ nops = 0

\* the stores a behaviour starts from
InitStore ==
    /\ \/ zk = EmptyStore /\ lastPut = <<>>
       \/ zk = SeededStore /\ lastPut = SeededLastPut
    /\ InitClients

Init == InitStore /\ NewPromise(<<>>) /\ NoHashing

Step(c) ==
    \/ \E item \in Items : PutCall(c, item)
    \/ PutSet(c)
    \/ SetFullyExists(c)
    \/ SetFullyCreate(c)
    \/ SetFullyMustExist(c)
    \/ \E ident \in Idents : Get(c, ident)
    \/ \E ident \in Idents : Versions(c, ident.Location)
    \/ \E ident \in Idents : Delete(c, ident)
    \/ DeleteItemVersion(c)
    \/ DeleteItemParent(c)
    \/ \E category \in Categories : ListCall(c, category)
    \/ ListBucket(c)
    \/ ListReturn(c)

Next == Step("c1")

Spec == Init /\ [][Next]_vars

(***************************************************************************)
(* Deletion as repair: the process c2 deletes the item foo and dies        *)
(* between two operations of deleteItem, before the item's own znode is    *)
(* deleted; then the process c1 calls Delete of foo, with no expected      *)
(* version, again and again.                                               *)
(***************************************************************************)
FooVersions == {<<"v1">>, <<"v2">>}

\* the znodes after Puts of foo and of some of its versions: foo at the zk
\* version i and the version v at the zk version at[v], absent when this is -1
StoreWith(i, at) ==
    [p \in {Root} \cup Ancestors(FooPath(<<>>)) |-> [data |-> EmptyData, version |-> 0]]
    @@ (FooPath(<<>>) :> [data |-> Data1, version |-> i])
    @@ [p \in {FooPath(v) : v \in {w \in FooVersions : at[w] >= 0}} |->
          [data |-> Data1,
           version |-> at[CHOOSE v \in FooVersions : FooPath(v) = p]]]

\* the zk versions the Puts that made the znodes z returned last
LastPutOf(z) ==
    [p \in DOMAIN z \cap ({FooPath(<<>>)} \cup {FooPath(v) : v \in FooVersions}) |->
        z[p].version]

InitRepair ==
    /\ \E i \in 0..MaxVersion, at \in [FooVersions -> -1..MaxVersion] :
          /\ zk = StoreWith(i, at)
          /\ lastPut = LastPutOf(zk)
    /\ pc = [c \in Clients |-> "idle"]
    /\ call = [c \in Clients |-> NoCall]
    /\ idx = [c \in Clients |-> 0]
    /\ pend = [c \in Clients |-> <<>>]
    /\ ret = [c \in Clients |-> NoRet]
    /\ pre = [c \in Clients |-> zk]
    /\ prevPut = [c \in Clients |-> <<>>]
    /\ nops = 0
    /\ NewPromise(<<>>)
    /\ NoHashing

\* the process of client c dies inside deleteItem; the process that takes
\* over has made no call yet
CrashInDeleteItem(c) ==
    /\ pc[c] = "deleteItem_versions"
    /\ pc' = [pc EXCEPT ![c] = "crashed"]
    /\ nops' = 0
    /\ UNCHANGED <<zk, call, idx, pend, ret, pre, prevPut, lastPut, pvars, hvars, wvars, mvars, fvars, cvars>>

FooIdent == [NoIdent EXCEPT !.Location = Foo]

NextRepair ==
    \/ pc["c2"] = "idle" /\ Delete("c2", FooIdent)
    \/ DeleteItemVersion("c2")
    \/ CrashInDeleteItem("c2")
    \/ pc["c2"] = "crashed" /\ Delete("c1", FooIdent)
    \/ DeleteItemVersion("c1")
    \/ DeleteItemParent("c1")

\* a step of NextRepair is possible: a call can be made or is under way
RepairEnabled ==
    \/ pc["c2"] = "idle" /\ CanCall("c2")
    \/ pc["c2"] = "deleteItem_versions"
    \/ pc["c2"] = "crashed" /\ CanCall("c1")
    \/ pc["c1"] = "deleteItem_versions"

\* weak fairness of NextRepair, WF_vars(NextRepair) with RepairEnabled for
\* ENABLED <<NextRepair>>_vars: the surviving process keeps calling, and each
\* call runs to its return
RepairFairness == []<>(~RepairEnabled) \/ []<><<NextRepair>>_vars

SpecRepair == InitRepair /\ [][NextRepair]_vars /\ RepairFairness

(***************************************************************************)
(* Paths: one client puts and gets items of the categories of              *)
(* TestIdentPath.                                                          *)
(***************************************************************************)
\* "buckets", "/buckets", "/buckets/", "foo/buckets", "/foo/buckets/"
BucketsCategories ==
    { <<"buckets">>, <<"/", "buckets">>, <<"/", "buckets", "/">>,
      <<"foo", "/", "buckets">>, <<"/", "foo", "/", "buckets", "/">> }

\* "widgets", "widgets/2017"
PlainCategories == { <<"widgets">>, <<"widgets", "/", "2017">> }

PathIdents ==
    {[Location |-> [Category |-> category, Name |-> <<"foo">>],
      Version |-> v, ZKVersion |-> <<>>] :
        category \in BucketsCategories \cup PlainCategories, v \in {<<>>, <<"v1">>}}

NextPath ==
    \/ \E ident \in PathIdents, d \in {Data1, Data2} :
          PutCall("c1", [Ident |-> ident, Data |-> d])
    \/ PutSet("c1")
    \/ SetFullyExists("c1")
    \/ SetFullyCreate("c1")
    \/ SetFullyMustExist("c1")
    \/ \E ident \in PathIdents : Get("c1", ident)

SpecPath == Init /\ [][NextPath]_vars

(***************************************************************************)
(* Hashing: bucketFor is called for one name, again and again, on a Store  *)
(* made with any number of hash buckets OptNumHashBuckets accepts.         *)
(***************************************************************************)
InitHash ==
    /\ InitStore
    /\ zk = EmptyStore
    /\ NewPromise(<<>>)
    /\ numBuckets \in 1..MaxBuckets
    /\ hasher = 0
    /\ sums = <<>>
    /\ hpc = "idle"
    /\ hashed = <<>>
    /\ NoWaiting

NextHash == BucketForWrite \/ BucketForSum

SpecHash == InitHash /\ [][NextHash]_vars

(***************************************************************************)
(* The concurrent specification: two clients each put one item, c1 with    *)
(* the payload d1 and c2 with d2; their calls interleave at the operations *)
(* of the coordination service.                                            *)
(***************************************************************************)
PayloadOf(c) == IF c = "c1" THEN Data1 ELSE Data2

ConcItems(c) ==
    {[Ident |-> [Location |-> Foo, Version |-> v, ZKVersion |-> z], Data |-> PayloadOf(c)] :
        v \in {<<>>, <<"v1">>}, z \in ZKVersions}

\* a client's one Put
PutOnce(c, item) == pc[c] = "idle" /\ PutCall(c, item)

StepConc(c) ==
    \/ \E item \in ConcItems(c) : PutOnce(c, item)
    \/ PutSet(c)
    \/ SetFullyExists(c)
    \/ SetFullyCreate(c)
    \/ SetFullyMustExist(c)

NextConc == \E c \in Clients : StepConc(c)

SpecConc == Init /\ [][NextConc]_vars

(***************************************************************************)
(* Shared parents: on a store with only the root, c1 puts the item foo and *)
(* c2 the item bar, of another bucket, or baz, of foo's bucket; no znode   *)
(* of the category exists before.                                          *)
(***************************************************************************)
Baz == [Category |-> Widgets, Name |-> <<"baz">>]

ShareItems(c) ==
    {[Ident |-> [Location |-> l, Version |-> v, ZKVersion |-> <<>>], Data |-> PayloadOf(c)] :
        l \in (IF c = "c1" THEN {Foo} ELSE {Bar, Baz}), v \in {<<>>, <<"v1">>}}

StepShare(c) ==
    \/ \E item \in ShareItems(c) : PutOnce(c, item)
    \/ PutSet(c)
    \/ SetFullyExists(c)
    \/ SetFullyCreate(c)
    \/ SetFullyMustExist(c)

NextShare == \E c \in Clients : StepShare(c)

InitShare == Init /\ zk = EmptyStore

SpecShare == InitShare /\ [][NextShare]_vars

(***************************************************************************)
(* Enumeration beside removals: c1 lists the category of the items foo and *)
(* bar while c2 deletes items and another user of the coordination service *)
(* removes buckets that are left without items.                            *)
(***************************************************************************)
BarPath == identPath([NoIdent EXCEPT !.Location = Bar]).path

\* the znodes after Put(bar, d2) on the filled store
ListedStore ==
    SeededStore
    @@ (Parent(BarPath) :> [data |-> EmptyData, version |-> 0])
    @@ (BarPath :> [data |-> Data2, version |-> 0])

\* the znodes of the buckets of a category
BucketsOf(z, category) ==
    {p \in DOMAIN z : p # Root /\ Parent(p) = bucketsPath(category).path}

\* a conn.Delete of a bucket by another user of the coordination service: it
\* succeeds on a bucket without children
RemoveBucket(b) ==
    /\ zkDelete(zk, b, -1).err = "nil"
    /\ zk' = zkDelete(zk, b, -1).zk
    /\ UNCHANGED <<pc, call, idx, pend, ret, pre, prevPut, nops, lastPut,
                   pvars, hvars, wvars, mvars, fvars, cvars>>

NextList ==
    \/ ListCall("c1", Widgets)
    \/ ListBucket("c1")
    \/ ListReturn("c1")
    \/ \E l \in {Foo, Bar} : Delete("c2", [NoIdent EXCEPT !.Location = l])
    \/ DeleteItemVersion("c2")
    \/ DeleteItemParent("c2")
    \/ \E b \in BucketsOf(zk, Widgets) : RemoveBucket(b)

InitList ==
    /\ zk = ListedStore
    /\ lastPut = SeededLastPut @@ (BarPath :> 0)
    /\ InitClients
    /\ NewPromise(<<>>)
    /\ NoHashing

SpecList == InitList /\ [][NextList]_vars

(***************************************************************************)
(* Categories side by side: one client puts and deletes the items foo and  *)
(* bar of the categories "widgets", "gadgets" and "widgets/buckets/5", and *)
(* lists the categories.                                                   *)
(***************************************************************************)
Gadgets == <<"gadgets">>

\* "widgets/buckets/5": the buckets znode name is not its last element
WidgetsBuckets5 == <<"widgets", "/", "buckets", "/", "5">>

SideCategories == {Widgets, Gadgets, WidgetsBuckets5}

SideIdents ==
    {[NoIdent EXCEPT !.Location = [Category |-> category, Name |-> n]] :
        category \in SideCategories, n \in {<<"foo">>, <<"bar">>}}

NextSide ==
    \/ \E ident \in SideIdents, d \in {Data1, Data2} :
          PutCall("c1", [Ident |-> ident, Data |-> d])
    \/ PutSet("c1")
    \/ SetFullyExists("c1")
    \/ SetFullyCreate("c1")
    \/ SetFullyMustExist("c1")
    \/ \E ident \in SideIdents : Get("c1", ident)
    \/ \E ident \in SideIdents : Delete("c1", ident)
    \/ DeleteItemVersion("c1")
    \/ DeleteItemParent("c1")
    \/ \E category \in SideCategories : ListCall("c1", category)
    \/ ListBucket("c1")
    \/ ListReturn("c1")

SpecSide == Init /\ [][NextSide]_vars

(***************************************************************************)
(* The cache (package cache): a map of objects and a sync.RWMutex.  The    *)
(* repository holds two implementations: cacheImpl, made by SimpleCache(), *)
(* and the struct Cache, made by New().  A call is modelled by its steps:  *)
(* it takes the lock its method takes, enters the access of the map,       *)
(* leaves it, and releases the lock.  An access that overlaps a write of   *)
(* another goroutine is a data race: the Go runtime may end the program    *)
(* ("concurrent map writes", "concurrent map read and map write"), and a   *)
(* read may see any contents.                                              *)
(***************************************************************************)
CacheKeys == {"k1", "k2"}

CacheValues == {"x"}

\* the maps given to Supplant
SupplantMaps == {<<>>, ("k2" :> "x")}

CacheKinds == {"cacheImpl", "Cache"}

CacheCalls ==
    {[op |-> op, key |-> k, val |-> "nil", m |-> <<>>] : op \in {"Delete", "Get"}, k \in CacheKeys}
    \cup {[op |-> "Set", key |-> k, val |-> v, m |-> <<>>] : k \in CacheKeys, v \in CacheValues}
    \cup {[op |-> op, key |-> "", val |-> "nil", m |-> <<>>] : op \in {"Objects", "Purge", "Size"}}
    \cup {[op |-> "Supplant", key |-> "", val |-> "nil", m |-> mp] : mp \in SupplantMaps}

\* the methods that write the map or the field that holds it
Writes(op) == op \in {"Delete", "Purge", "Set", "Supplant"}

\* the lock a method takes first: cacheImpl takes mutex.Lock() in Delete,
\* Purge, Set and Supplant and mutex.RLock() in Get, Objects and Size; Cache
\* takes mutex.Lock() in Purge and Set, mutex.RLock() in Get and Objects, and
\* no lock in Delete, Size and Supplant
lockOf(kind, op) ==
    IF kind = "Cache" /\ op \in {"Delete", "Size", "Supplant"} THEN "none"
    ELSE IF Writes(op) THEN "Lock" ELSE "RLock"

\* the map after a write
Written(objects, c) ==
    CASE c.op = "Delete" -> [k \in DOMAIN objects \ {c.key} |-> objects[k]]
      [] c.op = "Purge" -> <<>>
      [] c.op = "Set" -> Remember(objects, c.key, c.val)
      [] c.op = "Supplant" -> c.m

\* what a read returns
ReadOf(objects, c) ==
    CASE c.op = "Get" ->
           IF c.key \in DOMAIN objects
           THEN [NoCacheRet EXCEPT !.v = objects[c.key], !.ok = TRUE]
           ELSE NoCacheRet
      [] c.op = "Size" -> [NoCacheRet EXCEPT !.size = Cardinality(DOMAIN objects)]
      [] c.op = "Objects" -> [NoCacheRet EXCEPT !.objects = objects]

\* the contents a read can see of a map that is being written
Contents == UNION {[ks -> CacheValues] : ks \in SUBSET CacheKeys}

\* a goroutine calls a method of the cache
CacheCall(g, c) ==
    /\ ~cache.fatal
    /\ cg[g].pc = "idle"
    /\ ccalls < MaxCacheCalls
    /\ cg' = [cg EXCEPT ![g] = [NoCacheCall EXCEPT !.pc = "lock", !.op = c.op, !.key = c.key,
                                                 !.val = c.val, !.m = c.m]]
    /\ ccalls' = ccalls + 1
    /\ UNCHANGED <<cache, svars, pvars, hvars, wvars, mvars, fvars>>

\* mutex.Lock(), mutex.RLock(), or nothing
CacheLock(g) ==
    /\ ~cache.fatal
    /\ cg[g].pc = "lock"
    /\ LET l == lockOf(cache.kind, cg[g].op)
       IN  CASE l = "Lock" -> /\ ~cache.w /\ cache.r = 0
                              /\ cache' = [cache EXCEPT !.w = TRUE]
             [] l = "RLock" -> /\ ~cache.w
                               /\ cache' = [cache EXCEPT !.r = @ + 1]
             [] l = "none" -> UNCHANGED cache
    /\ cg' = [cg EXCEPT ![g].pc = "enter"]
    /\ UNCHANGED <<ccalls, svars, pvars, hvars, wvars, mvars, fvars>>

\* the goroutines whose access of the map is under way and conflicts with an
\* access of g: one of the two is a write
Conflicting(g) ==
    {h \in Callers \ {g} :
        cg[h].in # "none" /\ (Writes(cg[g].op) \/ cg[h].in = "write")}

\* the access of the map begins
CacheEnter(g) ==
    /\ ~cache.fatal
    /\ cg[g].pc = "enter"
    /\ cg' = [h \in Callers |->
                IF h = g
                THEN [cg[g] EXCEPT !.pc = "inside",
                                   !.in = IF Writes(cg[g].op) THEN "write" ELSE "read",
                                   !.raced = Conflicting(g) # {}]
                ELSE IF h \in Conflicting(g) THEN [cg[h] EXCEPT !.raced = TRUE]
                ELSE cg[h]]
    /\ UNCHANGED <<cache, ccalls, svars, pvars, hvars, wvars, mvars, fvars>>

\* the access of the map ends: the map is written, or the result read; after
\* a data race the runtime may have ended the program, and a read has seen
\* any contents
CacheLeave(g) ==
    /\ ~cache.fatal
    /\ cg[g].pc = "inside"
    /\ \/ /\ cg[g].raced
          /\ cache' = [cache EXCEPT !.fatal = TRUE]
          /\ UNCHANGED cg
       \/ /\ Writes(cg[g].op)
          /\ cache' = [cache EXCEPT !.objects = Written(cache.objects, cg[g])]
          /\ cg' = [cg EXCEPT ![g].pc = "unlock", ![g].in = "none"]
       \/ /\ ~Writes(cg[g].op)
          /\ \E seen \in (IF cg[g].raced THEN Contents ELSE {cache.objects}) :
                cg' = [cg EXCEPT ![g].pc = "unlock", ![g].in = "none",
                                 ![g].ret = ReadOf(seen, cg[g])]
          /\ UNCHANGED cache
    /\ UNCHANGED <<ccalls, svars, pvars, hvars, wvars, mvars, fvars>>

\* the deferred mutex.Unlock() or mutex.RUnlock(), and the return
CacheUnlock(g) ==
    /\ ~cache.fatal
    /\ cg[g].pc = "unlock"
    /\ LET l == lockOf(cache.kind, cg[g].op)
       IN  cache' = CASE l = "Lock" -> [cache EXCEPT !.w = FALSE]
                      [] l = "RLock" -> [cache EXCEPT !.r = @ - 1]
                      [] l = "none" -> cache
    /\ cg' = [cg EXCEPT ![g].pc = "idle"]
    /\ UNCHANGED <<ccalls, svars, pvars, hvars, wvars, mvars, fvars>>

StepCache(g) ==
    \/ \E c \in CacheCalls : CacheCall(g, c)
    \/ CacheLock(g)
    \/ CacheEnter(g)
    \/ CacheLeave(g)
    \/ CacheUnlock(g)

NextCache == \E g \in Callers : StepCache(g)

\* a cache of either implementation
InitCache ==
    /\ InitStore
    /\ zk = EmptyStore
    /\ NewPromise(<<>>)
    /\ numBuckets = hashBuckets
    /\ hasher = 0
    /\ sums = <<>>
    /\ hpc = "idle"
    /\ hashed = <<>>
    /\ wpc = [w \in Waiters |-> "idle"]
    /\ wcall = [w \in Waiters |-> NoWait]
    /\ wret = [w \in Waiters |-> NoResult]
    /\ cancel = [w \in Waiters |-> nil]
    /\ src = nil
    /\ nwaits = 0
    /\ NoMerging
    /\ flat = NoFlatten
    /\ \E kind \in CacheKinds : NewCache(kind)

SpecCache == InitCache /\ [][NextCache]_vars

(***************************************************************************)
(* The promise specification: three goroutines call one promise, their     *)
(* calls interleaved at the loads, the lock and the stores.                *)
(***************************************************************************)
\* the completers of WithCompletion options, in the order of the options
Constructions == {<<>>, <<"s1">>, <<"s1", "s2">>, <<"s1", "sbad">>, <<"sbad", "s1">>}

\* an empty store that no client calls, and a promise just constructed
InitPromise ==
    /\ InitStore
    /\ zk = EmptyStore
    /\ \E completers \in Constructions : NewPromise(completers)
    /\ NoHashing

StepPromise(g) ==
    \/ \E v \in Values, err \in Errors : PromiseComplete(g, v, err)
    \/ \E v \in Values : PromiseValue(g, v)
    \/ \E err \in Errors : PromiseError(g, err)
    \/ PromiseCancel(g)
    \/ \E fn \in Listeners : PromiseOnComplete(g, fn)
    \/ \E fn \in Handlers : PromiseOnPanic(g, fn)
    \/ CompleteLoad(g)
    \/ CompleteLock(g)
    \/ CompleteDefer(g)
    \/ CompleteClose(g)
    \/ CompleteStore(g)
    \/ CompleteUnlock(g)
    \/ OnCompleteLoad(g)
    \/ OnCompleteLock(g)
    \/ OnPanicLoad(g)
    \/ OnPanicLock(g)

NextPromise ==
    \/ \E g \in Goroutines : StepPromise(g)
    \/ \E t \in DOMAIN tasks : TaskStep(t)

SpecPromise == InitPromise /\ [][NextPromise]_vars

(***************************************************************************)
(* Calls from inside a completer: the completer "sreL" calls OnComplete    *)
(* and "sreP" calls OnPanic on the promise that is being completed.  The   *)
(* completer runs in a deferred call of complete, on the goroutine that    *)
(* holds m; sync.Mutex is not re-entrant, so m.Lock() waits, as for any    *)
(* goroutine, until m is free.                                             *)
(***************************************************************************)
Reentering == {"sreL", "sreP"}

\* the call the completer makes: [op, fn]
NestedCall(cf) ==
    IF cf = "sreL" THEN [op |-> "OnComplete", fn |-> "a"] ELSE [op |-> "OnPanic", fn |-> "h"]

\* the completer the next deferred call of complete runs
NextCompleter(g) == deferredCompleter(options.completers, gi[g])

AtCompleter(g) == gpc[g] = "complete_defers" /\ gi[g] <= Len(options.completers)

\* the completer is invoked and calls onComplete or onPanic, which load
\* completed and go on to m.Lock(); when the lock is taken they do what they
\* do in any call, and the completer returns
Reenter(g) ==
    /\ ~crashed
    /\ \/ /\ AtCompleter(g)
          /\ NextCompleter(g) \in Reentering
          /\ log' = Append(log, Event("sync", NextCompleter(g), garg[g].v, garg[g].err, g, nil))
          /\ IF completed = 1
             THEN /\ tasks' = IF NestedCall(NextCompleter(g)).op = "OnComplete"
                               THEN Append(tasks, listenerTask(NestedCall(NextCompleter(g)).fn))
                               ELSE tasks
                  /\ gi' = [gi EXCEPT ![g] = gi[g] + 1]
                  /\ UNCHANGED gpc
             ELSE /\ gpc' = [gpc EXCEPT ![g] = "nested_lock"]
                  /\ UNCHANGED <<tasks, gi>>
          /\ UNCHANGED <<callbacks, registered, panicHandler>>
       \/ /\ gpc[g] = "nested_lock"
          /\ m = ""
          /\ LET c == NestedCall(NextCompleter(g))
             IN  IF c.op = "OnComplete"
                 THEN /\ IF lockedCompleted
                         THEN /\ tasks' = Append(tasks, listenerTask(c.fn))
                              /\ UNCHANGED <<callbacks, registered>>
                         ELSE /\ callbacks' = Append(callbacks, c.fn)
                              /\ registered' = Append(registered, c.fn)
                              /\ UNCHANGED tasks
                      /\ UNCHANGED panicHandler
                 ELSE /\ panicHandler' = IF completed = 1 THEN panicHandler ELSE c.fn
                      /\ UNCHANGED <<callbacks, registered, tasks>>
          /\ gpc' = [gpc EXCEPT ![g] = "complete_defers"]
          /\ gi' = [gi EXCEPT ![g] = gi[g] + 1]
          /\ UNCHANGED log
    /\ UNCHANGED <<f, m, completed, options, garg, gpanic, effective, ignored, closes,
                   ncalls, crashed, svars, hvars, wvars, mvars, fvars, cvars>>

\* the completers of the promise: some call the promise
ReenterConstructions == {<<"s1">>, <<"sreL">>, <<"s1", "sreL">>, <<"sreP", "s1">>}

Reentrants == {"g1", "g2"}

\* the steps of the calls a goroutine has made
RunReenter(g) ==
    \/ CompleteLoad(g)
    \/ CompleteLock(g)
    \/ CompleteDefer(g) /\ NextCompleter(g) \notin Reentering
    \/ Reenter(g)
    \/ CompleteClose(g)
    \/ CompleteStore(g)
    \/ CompleteUnlock(g)
    \/ OnCompleteLoad(g)
    \/ OnCompleteLock(g)
    \/ OnPanicLoad(g)
    \/ OnPanicLock(g)

CallReenter(g) ==
    \/ \E v \in Values : PromiseValue(g, v)
    \/ \E fn \in {"a", "b"} : PromiseOnComplete(g, fn)
    \/ \E fn \in Handlers : PromiseOnPanic(g, fn)

NextReenter ==
    \/ \E g \in Reentrants : CallReenter(g)
    \/ \E g \in Reentrants : RunReenter(g)
    \/ \E t \in DOMAIN tasks : TaskStep(t)

InitReenter ==
    /\ InitStore
    /\ zk = EmptyStore
    /\ \E completers \in ReenterConstructions : NewPromise(completers)
    /\ NoHashing

\* the Go scheduler runs every goroutine that can take a step; nobody is
\* obliged to call the promise
SpecReenter ==
    /\ InitReenter
    /\ [][NextReenter]_vars
    /\ \A g \in Reentrants : WF_vars(RunReenter(g))
    /\ WF_vars(\E t \in DOMAIN tasks : TaskStep(t))

(***************************************************************************)
(* A promise some listeners were registered on already: earlier calls of   *)
(* OnComplete, and perhaps one of OnPanic, have returned, and two          *)
(* goroutines go on to complete the promise and to register more.          *)
(***************************************************************************)
\* the listeners the earlier calls of OnComplete appended, in order
Batches == {<<>>, <<"a", "b", "c">>, <<"bad", "a">>, <<"a", "bad", "b">>}

Listening == {"g1", "g2"}

InitListen ==
    /\ InitStore
    /\ zk = EmptyStore
    /\ NoHashing
    /\ \E cbs \in Batches, h \in {nil} \cup Handlers :
          /\ callbacks = cbs
          /\ registered = cbs
          /\ panicHandler = h
    /\ f = [done |-> FALSE, v |-> nil, err |-> nil]
    /\ m = ""
    /\ completed = 0
    /\ options = [completers |-> <<>>]
    /\ gpc = [g \in Goroutines |-> "idle"]
    /\ garg = [g \in Goroutines |-> NoArg]
    /\ gi = [g \in Goroutines |-> 0]
    /\ gpanic = [g \in Goroutines |-> FALSE]
    /\ tasks = <<>>
    /\ log = <<>>
    /\ effective = <<>>
    /\ ignored = <<>>
    /\ closes = 0
    /\ ncalls = 0
    /\ crashed = FALSE

StepListen(g) ==
    \/ \E v \in Values : PromiseValue(g, v)
    \/ \E err \in Errors : PromiseError(g, err)
    \/ \E fn \in Listeners : PromiseOnComplete(g, fn)
    \/ CompleteLoad(g)
    \/ CompleteLock(g)
    \/ CompleteClose(g)
    \/ CompleteStore(g)
    \/ CompleteUnlock(g)
    \/ OnCompleteLoad(g)
    \/ OnCompleteLock(g)

NextListen ==
    \/ \E g \in Listening : StepListen(g)
    \/ \E t \in DOMAIN tasks : TaskStep(t)

SpecListen == InitListen /\ [][NextListen]_vars

\* the Go scheduler runs every goroutine that can take a step
SpecListenFair == SpecListen /\ WF_vars(NextListen)

(***************************************************************************)
(* Waiting for a future: Block(cancel) and BlockContext(ctx) of the        *)
(* promise's future, of a fixture and of the futures of Await, AwaitChan   *)
(* and AwaitChanNoError. A select with several ready cases takes any.      *)
(***************************************************************************)
\* context.DeadlineExceeded
DeadlineExceeded == "DeadlineExceeded"

\* the futures waited for: the promise's, Fixture("x", nil), Await(ctx),
\* AwaitChan(done), AwaitChanNoError(done); the last three over one source
CtxFutures == {"Await", "AwaitChan", "AwaitChanNoError"}

Futures == {"promise", "fixture"} \cup CtxFutures

BlockOps == {"Block", "BlockContext"}

\* ctxFuture.err: ctx.Err of Await, context.Canceled once the chan of
\* AwaitChan is closed, nil always for AwaitChanNoError
ctxErr(on) ==
    CASE on = "Await" -> src
      [] on = "AwaitChan" -> IF src # nil THEN Canceled ELSE nil
      [] on = "AwaitChanNoError" -> nil

\* Done() of the future is closed
IsDone(on) ==
    CASE on = "promise" -> f.done
      [] on = "fixture" -> TRUE
      [] OTHER -> src # nil

\* what a blocking accessor returns of a completed future
completedResult(on) ==
    CASE on = "promise" -> [v |-> f.v, err |-> f.err]
      [] on = "fixture" -> [v |-> "x", err |-> nil]
      [] OTHER -> [v |-> nil, err |-> ctxErr(on)]

cancelledResult_NoError(op, on, w) == [v |-> nil, err |-> nil]

\* what a blocking accessor returns when its cancellation fired and the
\* future is not completed
cancelledResult(op, on, w) ==
    CASE op = "BlockContext" -> [v |-> nil, err |-> cancel[w]]
      [] op = "Block" /\ on = "promise" -> [v |-> nil, err |-> Canceled]
      [] op = "Block" /\ on \in CtxFutures -> [v |-> nil, err |-> nil]

\* the nested select of future.Block and future.BlockContext
recheckDone_Never == FALSE

recheckDone == f.done

\* the future as the cancelled branch of a blocking accessor leaves it
afterCancel_Cancels(fut) == [done |-> TRUE, v |-> nil, err |-> Canceled]

afterCancel(fut) == fut

\* a waiter calls Block or BlockContext of a future
BlockCall(w, op, on) ==
    /\ wpc[w] \in {"idle", "done"}
    /\ nwaits < MaxWaits
    /\ nwaits' = nwaits + 1
    /\ wpc' = [wpc EXCEPT ![w] = "select"]
    /\ wcall' = [wcall EXCEPT ![w] = [op |-> op, on |-> on, early |-> IsDone(on)]]
    /\ wret' = [wret EXCEPT ![w] = NoResult]
    /\ UNCHANGED <<cancel, src, svars, pvars, hvars, mvars, fvars, cvars>>

\* a waiter's cancellation source fires: its chan is closed, its context
\* cancelled or past its deadline
Fire(w, e) ==
    /\ cancel[w] = nil
    /\ cancel' = [cancel EXCEPT ![w] = e]
    /\ UNCHANGED <<wpc, wcall, wret, src, nwaits, svars, pvars, hvars, mvars, fvars, cvars>>

\* the source behind the futures of Await, AwaitChan, AwaitChanNoError fires
SrcFire(e) ==
    /\ src = nil
    /\ src' = e
    /\ UNCHANGED <<wpc, wcall, wret, cancel, nwaits, svars, pvars, hvars, mvars, fvars, cvars>>

Returns(w, r, by) ==
    /\ wpc' = [wpc EXCEPT ![w] = "done"]
    /\ wret' = [wret EXCEPT ![w] = [v |-> r.v, err |-> r.err, by |-> by,
                                     done |-> IsDone(wcall[w].on)]]

\* the case <-f.done (a fixture returns its value and error outright)
BlockDone(w) ==
    /\ wpc[w] = "select"
    /\ IsDone(wcall[w].on)
    /\ Returns(w, completedResult(wcall[w].on), "done")
    /\ UNCHANGED <<wcall, cancel, src, nwaits, svars, pvars, hvars, mvars, fvars, cvars>>

\* the case <-cancel, <-ctx.Done(): the promise's future goes on to its
\* nested select, a ctxFuture returns
BlockCancel(w) ==
    /\ wpc[w] = "select"
    /\ wcall[w].on # "fixture"
    /\ cancel[w] # nil
    /\ IF wcall[w].on = "promise"
       THEN wpc' = [wpc EXCEPT ![w] = "inner"] /\ UNCHANGED wret
       ELSE Returns(w, cancelledResult(wcall[w].op, wcall[w].on, w), "cancel")
    /\ UNCHANGED <<wcall, cancel, src, nwaits, svars, pvars, hvars, mvars, fvars, cvars>>

\* the nested select: case <-f.done, or default
BlockInner(w) ==
    /\ wpc[w] = "inner"
    /\ IF recheckDone
       THEN /\ Returns(w, completedResult("promise"), "inner")
            /\ UNCHANGED f
       ELSE /\ Returns(w, cancelledResult(wcall[w].op, "promise", w), "default")
            /\ f' = afterCancel(f)
    /\ UNCHANGED <<wcall, cancel, src, nwaits, svars, hvars,
                   m, callbacks, completed, panicHandler, options, gpc, garg, gi, gpanic,
                   tasks, log, effective, ignored, closes, ncalls, crashed, registered,
                   mvars, fvars, cvars>>

Completing == {"g1"}

\* ctx.Err() of a source that has fired: a deadline that passed, which
\* differs from the context.Canceled that future.Block and AwaitChan report
SourceErrs == {DeadlineExceeded}

StepBlock(w) ==
    \/ \E op \in BlockOps, on \in Futures : BlockCall(w, op, on)
    \/ \E e \in SourceErrs : Fire(w, e)
    \/ BlockDone(w)
    \/ BlockCancel(w)
    \/ BlockInner(w)

\* one goroutine completes the promise, once
StepCompleting(g) ==
    \/ \E v \in Values : ncalls = 0 /\ PromiseValue(g, v)
    \/ \E err \in Errors : ncalls = 0 /\ PromiseError(g, err)
    \/ ncalls = 0 /\ PromiseCancel(g)
    \/ CompleteLoad(g)
    \/ CompleteLock(g)
    \/ CompleteClose(g)
    \/ CompleteStore(g)
    \/ CompleteUnlock(g)

NextBlock ==
    \/ \E w \in Waiters : StepBlock(w)
    \/ \E e \in SourceErrs : SrcFire(e)
    \/ \E g \in Completing : StepCompleting(g)

\* a promise just constructed, no waiter, no source fired
InitBlock == InitStore /\ zk = EmptyStore /\ NewPromise(<<>>) /\ NoHashing

SpecBlock == InitBlock /\ [][NextBlock]_vars

\* one waiter alone, which the Go scheduler runs whenever it can take a step
NextWaiter ==
    \/ StepBlock("w1")
    \/ \E e \in SourceErrs : SrcFire(e)
    \/ \E g \in Completing : StepCompleting(g)

SpecWaiter == InitBlock /\ [][NextWaiter]_vars /\ WF_vars(NextWaiter)

(***************************************************************************)
(* Flatten(v, err), and what the future it returns reports. A value is     *)
(* known by its name; TypeOf gives its dynamic type.                       *)
(***************************************************************************)
\* errors.New("cannot flatten non-Future value")
ErrFlattenInvalid == "ErrFlattenInvalid"

\* nil; a string; a Promise and a Func, which are Interfaces and no Futures;
\* the futures Fixture("x", nil), Fixture(nil, "e1"), AwaitChanNoError(done)
\* with done open, and that of a promise not completed
FlattenValues ==
    {nil, "x", "aPromise", "aFunc", "fixture_x", "fixture_e1", "awaitChan", "pending"}

TypeOf(v) ==
    CASE v = nil -> "nil"
      [] v = "x" -> "string"
      [] v = "aPromise" -> "promise"
      [] v = "aFunc" -> "Func"
      [] v \in {"fixture_x", "fixture_e1"} -> "futureFixture"
      [] v = "awaitChan" -> "ctxFuture"
      [] v = "pending" -> "*future"

IsFuture_Any(v) == TRUE

\* the type assertion v.(Future)
IsFuture(v) == TypeOf(v) \in {"futureFixture", "ctxFuture", "*future"}

\* Fixture(v, err), or v itself
Fixture(v, err) == [is |-> "Fixture", v |-> v, err |-> err]

Itself(v) == [is |-> "v", v |-> v, err |-> nil]

Flatten(v, err) ==
    IF v = nil \/ err # nil
    THEN Fixture(v, err)
    ELSE IF ~IsFuture(v)
         THEN Fixture(v, ErrFlattenInvalid)
         ELSE Itself(v)

\* Done() is closed, Value(), Err() of what Flatten returned: of a
\* futureFixture, or of the future v
Report(out, method) ==
    IF out.is = "Fixture"
    THEN CASE method = "Done" -> "closed"
           [] method = "Value" -> out.v
           [] method = "Err" -> out.err
    ELSE CASE method = "Done" -> IF out.v \in {"fixture_x", "fixture_e1"} THEN "closed" ELSE "open"
           [] method = "Value" -> IF out.v = "fixture_x" THEN "x" ELSE nil
           [] method = "Err" -> IF out.v = "fixture_e1" THEN "e1" ELSE nil

FlattenCall ==
    /\ flat.pc = "call"
    /\ flat' = [flat EXCEPT !.pc = "returned", !.out = Flatten(flat.v, flat.err)]
    /\ UNCHANGED <<svars, pvars, hvars, wvars, mvars, cvars>>

\* the caller asks the future returned
FlattenReport(method) ==
    /\ flat.pc = "returned"
    /\ flat' = [flat EXCEPT !.pc = "reported",
                            !.saw = <<method, Report(flat.out, method)>>]
    /\ UNCHANGED <<svars, pvars, hvars, wvars, mvars, cvars>>

NextFlatten ==
    \/ FlattenCall
    \/ \E method \in {"Done", "Value", "Err"} : FlattenReport(method)

\* Flatten is about to be called with a value and an error
InitFlatten ==
    /\ InitStore
    /\ zk = EmptyStore
    /\ NewPromise(<<>>)
    /\ numBuckets = hashBuckets
    /\ hasher = 0
    /\ sums = <<>>
    /\ hpc = "idle"
    /\ hashed = <<>>
    /\ wpc = [w \in Waiters |-> "idle"]
    /\ wcall = [w \in Waiters |-> NoWait]
    /\ wret = [w \in Waiters |-> NoResult]
    /\ cancel = [w \in Waiters |-> nil]
    /\ src = nil
    /\ nwaits = 0
    /\ NoMerging
    /\ \E v \in FlattenValues, err \in {nil, "e1", Canceled} :
          flat = [NoFlatten EXCEPT !.pc = "call", !.v = v, !.err = err]
    /\ NoCaching

SpecFlatten == InitFlatten /\ [][NextFlatten]_vars

(***************************************************************************)
(* The merge of futures: JoinContext(ctx, merge, futures...) starts a      *)
(* goroutine that runs BlockContext(ctx, merge, futures...) and completes  *)
(* a new promise with what it returns. BlockContext starts a goroutine     *)
(* for every future that is not nil and waits for them all.                *)
(***************************************************************************)
\* a nil Interface, a future not completed yet, a completed one; a future
\* completes with a value or with an error
InputFutures ==
    {NoInput}
    \cup {[kind |-> "future", done |-> d, v |-> "x", err |-> nil] : d \in BOOLEAN}
    \cup {[kind |-> "future", done |-> d, v |-> nil, err |-> "e1"] : d \in BOOLEAN}

\* a nil Merger, for which BlockContext takes Discard(), or a FirstError
Mergers == {[kind |-> "Discard", error |-> nil], [kind |-> "FirstError", error |-> nil]}

\* Merger.Merge: Discard returns (nil, nil); FirstError keeps the first error
\* it is given and returns it
Merge(mg, v, err) ==
    IF mg.kind = "FirstError"
    THEN LET e == IF mg.error = nil /\ err # nil THEN err ELSE mg.error
         IN  [merger |-> [mg EXCEPT !.error = e], v |-> nil, err |-> e]
    ELSE [merger |-> mg, v |-> nil, err |-> nil]

\* BlockContext's mutex is held
mergeLocked_Never == FALSE

mergeLocked == mm # 0

\* the futures BlockContext starts a goroutine for
started_All(futures) == Inputs

started(futures) == {i \in Inputs : futures[i].kind # "nil"}

\* JoinContext: p := NewPromise(), the go statement
JoinCall ==
    /\ jpc = "idle"
    /\ jpc' = "started"
    /\ mpc' = "call"
    /\ UNCHANGED <<ins, mctx, merger, mgo, mm, mcalls, mres, svars, pvars, hvars, wvars, fvars, cvars>>

\* JoinContext: return p.Future(); pending tells whether it was Pending then
JoinReturn ==
    /\ jpc = "started"
    /\ jpc' = IF f.done THEN "returned_completed" ELSE "returned_pending"
    /\ UNCHANGED <<ins, mctx, merger, mpc, mgo, mm, mcalls, mres, svars, pvars, hvars, wvars, fvars, cvars>>

\* BlockContext: the loop over futures, wg.Add(1) and the go statement for
\* each that is not nil
BlockContextStart ==
    /\ mpc = "call"
    /\ mgo' = [i \in Inputs |-> IF i \in started(ins) THEN "select" ELSE "none"]
    /\ mpc' = "wait"
    /\ UNCHANGED <<ins, mctx, merger, jpc, mm, mcalls, mres, svars, pvars, hvars, wvars, fvars, cvars>>

\* a goroutine of BlockContext: case <-f.Done()
MergeDone(i) ==
    /\ mgo[i] = "select"
    /\ ins[i].done
    /\ mgo' = [mgo EXCEPT ![i] = "lock_completed"]
    /\ UNCHANGED <<ins, mctx, merger, jpc, mpc, mm, mcalls, mres, svars, pvars, hvars, wvars, fvars, cvars>>

\* a goroutine of BlockContext: case <-ctx.Done()
MergeCancel(i) ==
    /\ mgo[i] = "select"
    /\ mctx # nil
    /\ mgo' = [mgo EXCEPT ![i] = "inner"]
    /\ UNCHANGED <<ins, mctx, merger, jpc, mpc, mm, mcalls, mres, svars, pvars, hvars, wvars, fvars, cvars>>

\* a goroutine of BlockContext: the nested select
MergeInner(i) ==
    /\ mgo[i] = "inner"
    /\ mgo' = [mgo EXCEPT ![i] = IF ins[i].done THEN "lock_completed" ELSE "lock_cancelled"]
    /\ UNCHANGED <<ins, mctx, merger, jpc, mpc, mm, mcalls, mres, svars, pvars, hvars, wvars, fvars, cvars>>

\* a goroutine of BlockContext: m.Lock() and the call of merge.Merge, with
\* f.Value() and f.Err(), or with nil and ctx.Err()
MergeEnter(i) ==
    /\ mgo[i] \in {"lock_completed", "lock_cancelled"}
    /\ ~mergeLocked
    /\ mm' = i
    /\ mcalls' = Append(mcalls,
                        IF mgo[i] = "lock_completed"
                        THEN [i |-> i, v |-> ins[i].v, err |-> ins[i].err, completed |-> TRUE]
                        ELSE [i |-> i, v |-> nil, err |-> mctx, completed |-> FALSE])
    /\ mgo' = [mgo EXCEPT ![i] = "merging"]
    /\ UNCHANGED <<ins, mctx, merger, jpc, mpc, mres, svars, pvars, hvars, wvars, fvars, cvars>>

\* the last call of merge.Merge a goroutine made
LastCallOf(i) ==
    LET k == CHOOSE k \in 1..Len(mcalls) :
                 mcalls[k].i = i /\ \A j \in (k + 1)..Len(mcalls) : mcalls[j].i # i
    IN  mcalls[k]

\* a goroutine of BlockContext: merge.Merge returns, v and err are assigned
\* (err alone after a cancellation), the deferred m.Unlock() and wg.Done()
MergeExit(i) ==
    /\ mgo[i] = "merging"
    /\ LET c == LastCallOf(i)
           r == Merge(merger, c.v, c.err)
       IN  /\ merger' = r.merger
           /\ mres' = IF c.completed
                      THEN [v |-> r.v, err |-> r.err]
                      ELSE [mres EXCEPT !.err = r.err]
    /\ mm' = 0
    /\ mgo' = [mgo EXCEPT ![i] = "done"]
    /\ UNCHANGED <<ins, mctx, jpc, mpc, mcalls, svars, pvars, hvars, wvars, fvars, cvars>>

\* BlockContext: wg.Wait() returns, and BlockContext does
BlockContextReturn ==
    /\ mpc = "wait"
    /\ \A i \in Inputs : mgo[i] \in {"none", "done"}
    /\ mpc' = "returned"
    /\ UNCHANGED <<ins, mctx, merger, jpc, mgo, mm, mcalls, mres, svars, pvars, hvars, wvars, fvars, cvars>>

Joiner == "g1"

\* the goroutine of JoinContext: p.Complete(v, err)
JoinComplete ==
    /\ mpc = "returned"
    /\ ncalls = 0
    /\ PromiseComplete(Joiner, mres.v, mres.err)

\* a future given to JoinContext completes
InputCompletes(i) ==
    /\ ins[i].kind = "future"
    /\ ~ins[i].done
    /\ ins' = [ins EXCEPT ![i].done = TRUE]
    /\ UNCHANGED <<mctx, merger, jpc, mpc, mgo, mm, mcalls, mres, svars, pvars, hvars, wvars, fvars, cvars>>

\* the context given to JoinContext is cancelled, or its deadline passes
ContextDone(e) ==
    /\ mctx = nil
    /\ mctx' = e
    /\ UNCHANGED <<ins, merger, jpc, mpc, mgo, mm, mcalls, mres, svars, pvars, hvars, wvars, fvars, cvars>>

\* the steps of the goroutines
JoinSteps ==
    \/ JoinCall
    \/ JoinReturn
    \/ BlockContextStart
    \/ \E i \in Inputs : MergeDone(i)
    \/ \E i \in Inputs : MergeCancel(i)
    \/ \E i \in Inputs : MergeInner(i)
    \/ \E i \in Inputs : MergeEnter(i)
    \/ \E i \in Inputs : MergeExit(i)
    \/ BlockContextReturn
    \/ JoinComplete
    \/ CompleteLoad(Joiner)
    \/ CompleteLock(Joiner)
    \/ CompleteClose(Joiner)
    \/ CompleteStore(Joiner)
    \/ CompleteUnlock(Joiner)

\* the steps of the futures given and of the context
JoinEnvironment ==
    \/ \E i \in Inputs : InputCompletes(i)
    \/ \E e \in SourceErrs : ContextDone(e)

NextJoin == JoinSteps \/ JoinEnvironment

\* JoinContext is about to be called with some futures, a Merger or none,
\* and a context that may be cancelled already
InitJoin ==
    /\ InitStore
    /\ zk = EmptyStore
    /\ NewPromise(<<>>)
    /\ numBuckets = hashBuckets
    /\ hasher = 0
    /\ sums = <<>>
    /\ hpc = "idle"
    /\ hashed = <<>>
    /\ wpc = [w \in Waiters |-> "idle"]
    /\ wcall = [w \in Waiters |-> NoWait]
    /\ wret = [w \in Waiters |-> NoResult]
    /\ cancel = [w \in Waiters |-> nil]
    /\ src = nil
    /\ nwaits = 0
    /\ ins \in [Inputs -> InputFutures]
    /\ mctx \in {nil} \cup SourceErrs
    /\ merger \in Mergers
    /\ jpc = "idle"
    /\ mpc = "idle"
    /\ mgo = [i \in Inputs |-> "none"]
    /\ mm = 0
    /\ mcalls = <<>>
    /\ mres = [v |-> nil, err |-> nil]
    /\ flat = NoFlatten
    /\ NoCaching

\* the Go scheduler runs every goroutine that can take a step; the futures
\* given need not complete and the context need not be cancelled
SpecJoin == InitJoin /\ [][NextJoin]_vars /\ WF_vars(JoinSteps)

(***************************************************************************)
(* What the claims speak of.                                               *)
(***************************************************************************)
Returned(c, op) == pc[c] = "done" /\ call[c].op = op

\* the call's item passed validation and has a path
ValidCall(c) ==
    /\ ItemValidate([Ident |-> call[c].ident, Data |-> call[c].data]) = "nil"
    /\ identPath(call[c].ident).err = "nil"

\* the znode the call's Ident names
Target(c) == identPath(call[c].ident).path

\* the znode of the call's item, without a version
ItemPath(c) == identPath([call[c].ident EXCEPT !.Version = <<>>]).path

PutSucceeded(c) == Returned(c, "Put") /\ ret[c].err = "nil"

\* the version a Put returned
PutVersion(c) == ret[c].ident.ZKVersion[1]

\* C1: whatever calls of Complete, Value, Error and Cancel the goroutines make
\* and however they interleave, at most one call stores its value and error,
\* the future's value and error are that call's from then on, f.done is closed
\* once and only by that call, and every other call leaves the result alone.
C1_ExactlyOnce ==
    /\ Len(effective) <= 1
    /\ closes <= 1
    /\ f.done <=> closes = 1
    /\ f.done => Len(effective) = 1
    /\ Len(effective) = 0 => f.v = nil /\ f.err = nil
    /\ Len(effective) = 1 => f.v = effective[1].v /\ f.err = effective[1].err

\* C1's case: three calls raced with three different results; one of them won,
\* one lost after it had passed the first load of completed, one lost at it
C1_Witness ==
    /\ f.done
    /\ Len(effective) = 1
    /\ Len(ignored) = 2
    /\ {ignored[1].at, ignored[2].at} = {"load", "lock"}
    /\ Cardinality({<<effective[1].v, effective[1].err>>,
                    <<ignored[1].v, ignored[1].err>>,
                    <<ignored[2].v, ignored[2].err>>}) = 3
    /\ \A g \in Goroutines : gpc[g] = "idle"

\* the call of complete that stored its value and error was promise.Cancel
Cancelled == Len(effective) = 1 /\ effective[1].op = "Cancel"

\* C2: while f.done is open, Value() and Err() return nil; once f.done is
\* closed it stays closed and Value() and Err() return the same value and error
\* in every later state; a Cancel that completes the promise completes it with
\* (nil, context.Canceled).
C2_PendingThenCompleted ==
    /\ [](~f.done => FutureValue = nil /\ FutureErr = nil)
    /\ [][f.done => f.done' /\ FutureValue' = FutureValue /\ FutureErr' = FutureErr]_vars
    /\ [](f.done /\ Cancelled => FutureValue = nil /\ FutureErr = Canceled)

\* C2's case: Cancel completed the promise, a later call that carried a value
\* was ignored, and the future still reports the cancellation
C2_Witness ==
    /\ f.done
    /\ Cancelled
    /\ \E i \in 1..Len(ignored) : ignored[i].v # nil
    /\ FutureValue = nil
    /\ FutureErr = Canceled

\* C3: a Put that carries an expected version (ZKVersion >= 0) and whose target
\* znode did not exist when it was called returns ErrVersionConflict, for an
\* item and for a version of an item alike.
C3_VersionOnMissingNode ==
    \A c \in Clients :
        ( /\ Returned(c, "Put")
          /\ ValidCall(c)
          /\ actualZKVersion(call[c].ident) >= 0
          /\ Target(c) \notin DOMAIN pre[c] )
        => ret[c].err = "ErrVersionConflict"

\* C3's case: a Put of a version of an item, asserting a zk version, on a store
\* where the znode is missing, has returned the conflict
C3_Witness ==
    \E c \in Clients :
        /\ Returned(c, "Put")
        /\ ValidCall(c)
        /\ call[c].ident.Version # <<>>
        /\ actualZKVersion(call[c].ident) >= 0
        /\ Target(c) \notin DOMAIN pre[c]
        /\ ret[c].err = "ErrVersionConflict"

\* the expected version of the call differs from the version the target had
StaleVersion(c) ==
    /\ ValidCall(c)
    /\ Target(c) \in DOMAIN pre[c]
    /\ actualZKVersion(call[c].ident) >= 0
    /\ actualZKVersion(call[c].ident) # pre[c][Target(c)].version

\* C4: a Put on an existing znode with an expected version other than the
\* znode's version returns ErrVersionConflict, and every znode is as it was
\* before the call.
C4_StalePutChangesNothing ==
    \A c \in Clients :
        (Returned(c, "Put") /\ StaleVersion(c))
        => (ret[c].err = "ErrVersionConflict" /\ zk = pre[c])

\* C4's case: a stale Put, with data other than the stored data, has returned
C4_Witness ==
    \E c \in Clients :
        /\ Returned(c, "Put")
        /\ StaleVersion(c)
        /\ pre[c][Target(c)].data # call[c].data
        /\ ret[c].err = "ErrVersionConflict"

\* C5: with one client, a successful Put returns version 0 when it creates the
\* znode, and otherwise one more than the version the last successful Put of
\* the same Ident returned (since the znode was created), whether the Ident
\* names an item or a version of an item.
C5_VersionIncrements ==
    \A c \in Clients :
        PutSucceeded(c) =>
            /\ ret[c].ident.ZKVersion # <<>>
            /\ Target(c) \notin DOMAIN pre[c] => PutVersion(c) = 0
            /\ (Target(c) \in DOMAIN pre[c] /\ prevPut[c] # <<>>)
                  => PutVersion(c) = prevPut[c][1] + 1

\* C5's case: a second Put of a version of an item has returned one more than
\* the first
C5_Witness ==
    \E c \in Clients :
        /\ PutSucceeded(c)
        /\ call[c].ident.Version # <<>>
        /\ Target(c) \in DOMAIN pre[c]
        /\ prevPut[c] # <<>>
        /\ PutVersion(c) = prevPut[c][1] + 1

\* C6: right after a successful Put (no other writer), Get of the same Ident,
\* with the expected version as passed or as returned, finds the Put's data and
\* reports the version the Put returned.
C6_RoundTrip ==
    \A c \in Clients :
        PutSucceeded(c) =>
            \A ident \in {call[c].ident, ret[c].ident} :
                LET g == StoreGet(zk, ident)
                IN  /\ g.err = "nil"
                    /\ g.found
                    /\ g.data = call[c].data
                    /\ g.ident.ZKVersion = ret[c].ident.ZKVersion

\* C6's case: a Put that overwrote other data has returned
C6_Witness ==
    \E c \in Clients :
        /\ PutSucceeded(c)
        /\ Target(c) \in DOMAIN pre[c]
        /\ pre[c][Target(c)].data # call[c].data
        /\ StoreGet(zk, ret[c].ident).found

\* two Puts of the same Ident that assert the same version k, called by two
\* clients on the same znodes, on which the target has version k
RacingPuts(c, d) ==
    /\ c # d
    /\ Returned(c, "Put") /\ Returned(d, "Put")
    /\ ValidCall(c) /\ ValidCall(d)
    /\ Target(c) = Target(d)
    /\ call[c].ident.ZKVersion # <<>>
    /\ call[c].ident.ZKVersion = call[d].ident.ZKVersion
    /\ pre[c] = pre[d]
    /\ Target(c) \in DOMAIN pre[c]
    /\ pre[c][Target(c)].version = actualZKVersion(call[c].ident)

\* C7: of two concurrent Puts on an existing znode that assert its current
\* version k, one succeeds and returns k + 1, the other returns
\* ErrVersionConflict, and the znode holds the data of the one that succeeded.
C7_CompareAndSwap ==
    \A c, d \in Clients :
        RacingPuts(c, d) =>
            \E w \in {c, d} :
                LET l == CHOOSE x \in {c, d} : x # w
                    k == actualZKVersion(call[c].ident)
                IN  /\ ret[w].err = "nil"
                    /\ ret[w].ident.ZKVersion = <<k + 1>>
                    /\ ret[l].err = "ErrVersionConflict"
                    /\ zk[Target(c)] = [data |-> call[w].data, version |-> k + 1]

\* C7's case: two such Puts with different data have both returned
C7_Witness ==
    \E c, d \in Clients :
        /\ RacingPuts(c, d)
        /\ call[c].data # call[d].data
        /\ ret[d].err = "ErrVersionConflict"

\* a successful Put of a version of an item whose znode did not exist
PutOfVersionCreatesItem(c) ==
    /\ PutSucceeded(c)
    /\ call[c].ident.Version # <<>>
    /\ ItemPath(c) \notin DOMAIN pre[c]

\* C8: a successful Put of a version of an item, called when the item's own
\* znode did not exist, leaves the item's znode and the version's znode both
\* holding the Put's data, and every other znode it created empty.
C8_ParentMaterialized ==
    \A c \in Clients :
        PutOfVersionCreatesItem(c) =>
            /\ {ItemPath(c), Target(c)} \subseteq DOMAIN zk
            /\ zk[ItemPath(c)].data = call[c].data
            /\ zk[Target(c)].data = call[c].data
            /\ \A p \in DOMAIN zk \ DOMAIN pre[c] :
                  p \notin {ItemPath(c), Target(c)} => zk[p].data = EmptyData

\* C8's case: such a Put has returned, having created the nodes above the item
C8_Witness ==
    \E c \in Clients :
        /\ PutOfVersionCreatesItem(c)
        /\ Parent(ItemPath(c)) \in DOMAIN zk \ DOMAIN pre[c]

\* C9: a Put of a version of an item whose own znode exists leaves that znode's
\* data and version as they were, whether the version's znode is created or
\* updated.
C9_ParentUntouched ==
    \A c \in Clients :
        ( /\ Returned(c, "Put")
          /\ ValidCall(c)
          /\ call[c].ident.Version # <<>>
          /\ ItemPath(c) \in DOMAIN pre[c] )
        => (ItemPath(c) \in DOMAIN zk /\ zk[ItemPath(c)] = pre[c][ItemPath(c)])

\* C9's case: a Put has created a version under an item that holds other data
C9_Witness ==
    \E c \in Clients :
        /\ PutSucceeded(c)
        /\ call[c].ident.Version # <<>>
        /\ ItemPath(c) \in DOMAIN pre[c]
        /\ Target(c) \notin DOMAIN pre[c]
        /\ pre[c][ItemPath(c)].data # call[c].data

\* a Delete of an item (no version named) that had versions when it was called
\* has returned without an error
DeletedItemWithVersions(c) ==
    /\ Returned(c, "Delete")
    /\ ValidCall(c)
    /\ call[c].ident.Version = <<>>
    /\ ret[c].err = "nil"
    /\ ItemPath(c) \in DOMAIN pre[c]
    /\ ChildNames(pre[c], ItemPath(c)) # {}

\* C10: a successful Delete of an item that has versions returns found = true
\* and removes the znode of every version, whatever its zk version, and the
\* item's znode: Get of the item and of each version then finds nothing.
C10_DeleteCascade ==
    \A c \in Clients :
        DeletedItemWithVersions(c) =>
            /\ ret[c].found
            /\ ItemPath(c) \notin DOMAIN zk
            /\ ~StoreGet(zk, call[c].ident).found
            /\ \A v \in ChildNames(pre[c], ItemPath(c)) :
                  LET vi == [call[c].ident EXCEPT !.Version = v]
                  IN  /\ identPath(vi).path \notin DOMAIN zk
                      /\ ~StoreGet(zk, vi).found

\* C10's case: the Delete asserted the item's zk version, and removed two
\* versions, one of them at another zk version
C10_Witness ==
    \E c \in Clients :
        /\ DeletedItemWithVersions(c)
        /\ Cardinality(ChildNames(pre[c], ItemPath(c))) = 2
        /\ actualZKVersion(call[c].ident) >= 0
        /\ \E v \in ChildNames(pre[c], ItemPath(c)) :
              pre[c][identPath([call[c].ident EXCEPT !.Version = v]).path].version
                  # actualZKVersion(call[c].ident)

\* the znodes z without the znode p
Without(z, p) == [q \in DOMAIN z \ {p} |-> z[q]]

\* C11: a Delete of an Ident, of an item or of a version of one, whose znode
\* does not exist returns found = false and no error, and leaves every znode
\* as it was; so does the Delete of one that an earlier Delete removed.
C11_DeleteOfAbsent ==
    \A c \in Clients :
        (Returned(c, "Delete") /\ ValidCall(c) /\ Target(c) \notin DOMAIN pre[c])
        => (ret[c].err = "nil" /\ ~ret[c].found /\ zk = pre[c])

\* C11's case: the second Delete of the version v1 has returned. The znodes
\* are those of SeededStore without v1, which within MaxOps calls only a first
\* Delete of v1 leaves, and they were so when the second was called.
C11_Witness ==
    \E c \in Clients :
        /\ Returned(c, "Delete")
        /\ call[c].ident.Location = Foo
        /\ call[c].ident.Version = <<"v1">>
        /\ pre[c] = Without(SeededStore, FooPath(<<"v1">>))
        /\ zk = pre[c]
        /\ ~ret[c].found

\* a Delete of a version of an item whose znode existed has returned
DeletedVersion(c) ==
    /\ Returned(c, "Delete")
    /\ ValidCall(c)
    /\ call[c].ident.Version # <<>>
    /\ Target(c) \in DOMAIN pre[c]

\* the call expects no version, or the version the target had
ExpectsCurrent(c) ==
    actualZKVersion(call[c].ident) \in {-1, pre[c][Target(c)].version}

\* C12: a Delete of a version of an item removes the znode of that version and
\* nothing else when the expected version is nil or the znode's; with another
\* expected version it returns ErrVersionConflict and removes nothing.
C12_DeleteVersionOnly ==
    \A c \in Clients :
        DeletedVersion(c) =>
            IF ExpectsCurrent(c)
            THEN ret[c].err = "nil" /\ ret[c].found /\ zk = Without(pre[c], Target(c))
            ELSE ret[c].err = "ErrVersionConflict" /\ zk = pre[c]

\* C12's case: a version was deleted at its expected zk version, and the item
\* and another version of it remain
C12_Witness ==
    \E c \in Clients :
        /\ DeletedVersion(c)
        /\ actualZKVersion(call[c].ident) >= 0
        /\ ret[c].err = "nil"
        /\ Target(c) \notin DOMAIN zk
        /\ ChildNames(zk, ItemPath(c)) # {}

\* a Delete of an item (no version named) that existed without versions
DeletedPlainItem(c) ==
    /\ Returned(c, "Delete")
    /\ ValidCall(c)
    /\ call[c].ident.Version = <<>>
    /\ Target(c) \in DOMAIN pre[c]
    /\ ChildNames(pre[c], Target(c)) = {}

\* C13 as claimed: a Delete of an item for which no versions were found
\* returns found = false and leaves the item's znode in place.
C13_NoVersionsMeansNotFound ==
    \A c \in Clients :
        DeletedPlainItem(c) => (~ret[c].found /\ Target(c) \in DOMAIN zk)

\* the two-phase deletion of an item is entered by client c
EntersDeleteItem(c) == pc[c] # "deleteItem_versions" /\ pc'[c] = "deleteItem_versions"

\* C13, amended: a Delete of an item whose znode does not exist returns
\* found = false without entering the deletion of versions and parent; a
\* Delete of an item that exists without versions deletes the item's znode,
\* if the expected version is nil or the znode's, and returns found = true.
C13_MissingItemNotFound ==
    /\ [](\A c \in Clients :
            /\ ( /\ Returned(c, "Delete")
                 /\ ValidCall(c)
                 /\ call[c].ident.Version = <<>>
                 /\ Target(c) \notin DOMAIN pre[c] )
               => (~ret[c].found /\ ret[c].err = "nil" /\ zk = pre[c])
            /\ (DeletedPlainItem(c) /\ ExpectsCurrent(c))
               => (ret[c].found /\ ret[c].err = "nil" /\ zk = Without(pre[c], Target(c))))
    /\ [][\A c \in Clients :
            EntersDeleteItem(c) => identPath(call'[c].ident).path \in DOMAIN zk]_vars

\* C13's case: an item without versions was deleted and found
C13_Witness ==
    \E c \in Clients :
        /\ DeletedPlainItem(c)
        /\ ret[c].found
        /\ Target(c) \notin DOMAIN zk

\* the names an item of the model can have
Names == {<<"foo">>, <<"bar">>}

\* the names of the items that have a znode under the category
ItemNames(z, category) ==
    {n \in Names :
        identPath([NoIdent EXCEPT !.Location = [Category |-> category, Name |-> n]]).path
            \in DOMAIN z}

\* the elements of a sequence of names increase, none occurs twice
Increasing(names) ==
    \A j, k \in 1..Len(names) : j < k => StrLess(names[j], names[k])

\* C15: List returns one Location for every item that has a znode under the
\* category and for nothing else (no version of an item is listed), with the
\* category it was called with, in increasing order of Name; Versions returns
\* the names of the item's versions, each once, in increasing order.
C15_SortedEnumeration ==
    \A c \in Clients :
        /\ (Returned(c, "List") /\ ret[c].found) =>
              LET locs == ret[c].locations
                  category == call[c].ident.Location.Category
              IN  /\ {locs[k].Name : k \in 1..Len(locs)} = ItemNames(zk, category)
                  /\ \A k \in 1..Len(locs) : locs[k].Category = category
                  /\ Increasing([k \in 1..Len(locs) |-> locs[k].Name])
        /\ (Returned(c, "Versions") /\ ret[c].found) =>
              /\ {ret[c].versions[k] : k \in 1..Len(ret[c].versions)}
                    = ChildNames(zk, ItemPath(c))
              /\ Increasing(ret[c].versions)

\* C15's case: List has returned two items, one of which has versions
C15_Witness ==
    \E c \in Clients :
        /\ Returned(c, "List")
        /\ Len(ret[c].locations) = 2
        /\ \E k \in 1..2 :
              ChildNames(zk, identPath([NoIdent EXCEPT !.Location = ret[c].locations[k]]).path) # {}

\* the category List was called with is valid and has a buckets path
ListValid(c) ==
    /\ validateCategory(call[c].ident.Location.Category) = "nil"
    /\ bucketsPath(call[c].ident.Location.Category).err = "nil"

\* C16: Get of an Ident without a znode, Versions of an item without a znode
\* and List of a category without a buckets znode return found = false, no
\* error and the zero value of their result; and when a Get, a Versions or a
\* List has returned, every znode is as it was before the call.
C16_AbsenceIsNotAnError ==
    \A c \in Clients :
        /\ (\E op \in {"Get", "Versions", "List"} : Returned(c, op)) => zk = pre[c]
        /\ (Returned(c, "Get") /\ ValidCall(c) /\ Target(c) \notin DOMAIN pre[c])
              => ret[c] = NoRet
        /\ (Returned(c, "Versions") /\ ValidCall(c) /\ Target(c) \notin DOMAIN pre[c])
              => ret[c] = NoRet
        /\ ( /\ Returned(c, "List")
             /\ ListValid(c)
             /\ bucketsPath(call[c].ident.Location.Category).path \notin DOMAIN pre[c] )
              => ret[c] = NoRet

\* C16's case: Get of a version that an existing item does not have
C16_Witness ==
    \E c \in Clients :
        /\ Returned(c, "Get")
        /\ ValidCall(c)
        /\ call[c].ident.Version # <<>>
        /\ ItemPath(c) \in DOMAIN zk
        /\ Target(c) \notin DOMAIN zk
        /\ ret[c] = NoRet

\* neither the item foo nor a version of it has a znode
FooGone == \A v \in {<<>>} \cup FooVersions : FooPath(v) \notin DOMAIN zk

\* C14: after a crash inside the two-phase deletion of an item, which leaves
\* the item's znode and any part of its versions, and with no other writer,
\* no repeated Delete of the item without expected version returns an error,
\* and eventually one returns found = false with the item and all its
\* versions gone.
C14_RepairConverges ==
    /\ [](Returned("c1", "Delete") => ret["c1"].err = "nil")
    /\ (pc["c2"] = "crashed")
          ~> (Returned("c1", "Delete") /\ ~ret["c1"].found /\ FooGone)

\* C14's case: the crash left the item and only a part of its versions, and
\* the repairing Delete has since returned not found with all of them gone
C14_Witness ==
    /\ pc["c2"] = "crashed"
    /\ Cardinality(ChildNames(pre["c2"], FooPath(<<>>))) = 2
    /\ Len(pend["c2"]) = 1
    /\ Returned("c1", "Delete")
    /\ ~ret["c1"].found
    /\ FooGone

\* the elements of a sequence of strings, a separator before each
RECURSIVE Slashed(_)
Slashed(ss) == IF ss = <<>> THEN <<>> ELSE <<"/">> \o Head(ss) \o Slashed(Tail(ss))

\* the path elements of the categories that do not end in the buckets name
ElementsOf(category) ==
    IF category = <<"widgets">> THEN << <<"widgets">> >>
    ELSE << <<"widgets">>, <<"2017">> >>

\* base path, category, buckets name, bucket number, name and, if there is
\* one, version, each after a separator
ExpectedPath(ident) ==
    Slashed(<< <<"storage">> >> \o ElementsOf(ident.Location.Category)
            \o << <<"buckets">>, <<ToString(bucketFor(ident.Location.Name))>>,
                  ident.Location.Name >>
            \o (IF ident.Version = <<>> THEN <<>> ELSE <<ident.Version>>))

\* C17: the znode of an Ident is at the join of base path, category, buckets
\* name, bucket number, name and version, if any; for the categories
\* "buckets", "/buckets", "/buckets/", "foo/buckets" and "/foo/buckets/" Put
\* and Get fail with "category may not end with the buckets znode name" in
\* the step of the call, no znode read or written; for "widgets" and
\* "widgets/2017" they succeed, and Put leaves the payload at that path.
C17_IdentPath ==
    /\ [](\A c \in Clients :
            (pc[c] = "done" /\ call[c].op \in {"Put", "Get"}) =>
                IF call[c].ident.Location.Category \in BucketsCategories
                THEN /\ ret[c].err = "category may not end with the buckets znode name"
                     /\ zk = pre[c]
                ELSE /\ ret[c].err = "nil"
                     /\ identPath(call[c].ident).path = ExpectedPath(call[c].ident)
                     /\ call[c].op = "Put" =>
                          /\ ExpectedPath(call[c].ident) \in DOMAIN zk
                          /\ zk[ExpectedPath(call[c].ident)].data = call[c].data
                          /\ \A p \in DOMAIN pre[c] \ {ExpectedPath(call[c].ident)} :
                                p \in DOMAIN zk /\ zk[p] = pre[c][p])
    /\ [][\A c \in Clients :
            (nops' # nops /\ call'[c].ident.Location.Category \in BucketsCategories)
                => pc'[c] = "done"]_vars

\* C17's case: a version of an item of the category "widgets/2017" was put
C17_Witness ==
    \E c \in Clients :
        /\ Returned(c, "Put")
        /\ call[c].ident.Location.Category = <<"widgets", "/", "2017">>
        /\ call[c].ident.Version = <<"v1">>
        /\ ret[c].err = "nil"
        /\ ExpectedPath(call[c].ident) \in DOMAIN zk
        /\ ExpectedPath(call[c].ident) \notin DOMAIN pre[c]

\* C18: on one Store, with one hash provider and a positive number N of hash
\* buckets, every call of bucketFor for a name returns the same bucket, and
\* whatever signed value the low 8 bytes of the digest hold, the bucket is
\* one of 0..N-1.
C18_BucketPureAndBounded ==
    \A k \in 1..Len(hashed) :
        /\ hashed[k].bucket = hashed[1].bucket
        /\ hashed[k].bucket \in 0..(numBuckets - 1)

\* C18's case: bucketFor was called twice, and the digest held a negative
\* value that is not a multiple of the number of buckets
C18_Witness ==
    /\ Len(hashed) = 2
    /\ hashed[2].res = -(MaxDigest + 1)
    /\ hashed[2].bucket # 0

\* the invocations of synchronous listeners, in the order they were made
SyncLog == LET IsSync(e) == e.kind = "sync" IN SelectSeq(log, IsSync)

\* the sequence s from its last element to its first
Reverse(s) == [k \in 1..Len(s) |-> s[Len(s) - k + 1]]

HandlerLog(g) ==
    LET IsHandled(e) == e.kind = "panic" /\ e.by = g IN SelectSeq(log, IsHandled)

\* the completers of the promise that panic, in the order of registration
PanickingCompleters == SelectSeq(options.completers, Panics)

\* C20: with a panic handler installed (OnPanic has no effect once the
\* promise is completed, so it was installed before), a panic of a
\* synchronous listener is handed to the handler once, as the recovered value
\* with the value and error of the completion; the other synchronous
\* listeners run all the same, the promise gets completed, and the effective
\* Complete returns normally.
C20_SyncPanicIsolated ==
    /\ [](\A g \in Goroutines :
            (panicHandler # nil /\ Len(effective) = 1 /\ effective[1].g = g) =>
                /\ ~gpanic[g]
                /\ gpc[g] # "panicked"
                /\ \A k \in 1..Len(HandlerLog(g)) :
                      /\ k <= Len(PanickingCompleters)
                      /\ HandlerLog(g)[k].fn = panicHandler
                      /\ HandlerLog(g)[k].recovered = PanicOf(PanickingCompleters[k])
                      /\ HandlerLog(g)[k].v = effective[1].v
                      /\ HandlerLog(g)[k].err = effective[1].err
                /\ completed = 1 =>
                      /\ Len(HandlerLog(g)) = Len(PanickingCompleters)
                      /\ Len(SyncLog) = Len(options.completers)
                      /\ f.done
                /\ gpc[g] = "idle" => completed = 1)
    /\ [][\A g \in Goroutines :
            (panicHandler # nil /\ gpc[g] = "complete_unlock" /\ gpc'[g] # gpc[g])
                => gpc'[g] = "idle"]_vars

\* C20's case: the first of two synchronous listeners panicked, the handler
\* got the panic, the second listener ran, and Complete has returned
C20_Witness ==
    \E g \in Goroutines :
        /\ panicHandler # nil
        /\ options.completers = <<"sbad", "s1">>
        /\ Len(effective) = 1
        /\ effective[1].g = g
        /\ gpc[g] = "idle"
        /\ completed = 1
        /\ Len(HandlerLog(g)) = 1
        /\ HandlerLog(g)[1].recovered = PanicOf("sbad")
        /\ SyncLog[2].fn = "s1"

\* the effective call of complete was made by goroutine g and is over
EffectiveOver(g) ==
    /\ Len(effective) = 1
    /\ effective[1].g = g
    /\ completed = 1
    /\ m # g

AsyncOf(t) == SelectSeq(log, LAMBDA e : e.kind = "async" /\ e.task = t)

RecoveredOf(t) == SelectSeq(log, LAMBDA e : e.kind = "panic" /\ e.task = t)

\* the goroutine complete started for the listeners then registered
IsBatch(t) == tasks[t].wait

Ended(t) == tasks[t].next > Len(tasks[t].fns)

\* the position of the first listener that panics, or one more than there are
FirstPanicking(fns) ==
    IF \E k \in 1..Len(fns) : Panics(fns[k])
    THEN CHOOSE k \in 1..Len(fns) :
             Panics(fns[k]) /\ \A j \in 1..(k - 1) : ~Panics(fns[j])
    ELSE Len(fns) + 1

BatchCalls == SelectSeq(log, LAMBDA e : e.kind = "async" /\ IsBatch(e.task))

FnsOf(events) == [i \in 1..Len(events) |-> events[i].fn]

IsPrefix(s, t) == Len(s) <= Len(t) /\ \A i \in 1..Len(s) : s[i] = t[i]

\* no started goroutine has a listener left to call
Quiet == ~crashed /\ \A t \in DOMAIN tasks : Ended(t)

\* whatever was called of the listeners registered before completion was
\* called after Done was closed, with the terminal value and error, by one
\* goroutine, in registration order and not twice
BatchCallsInOrder ==
    /\ \A i \in 1..Len(BatchCalls) :
           /\ BatchCalls[i].done
           /\ Len(effective) = 1
           /\ BatchCalls[i].v = effective[1].v
           /\ BatchCalls[i].err = effective[1].err
           /\ BatchCalls[i].task = BatchCalls[1].task
    /\ IsPrefix(FnsOf(BatchCalls), registered)
    /\ Cardinality({t \in DOMAIN tasks : IsBatch(t)}) <= 1

UpToFirstPanic(fns) ==
    SubSeq(fns, 1, IF FirstPanicking(fns) <= Len(fns) THEN FirstPanicking(fns) ELSE Len(fns))

Singles == {t \in DOMAIN tasks : ~IsBatch(t)}

NoneLost ==
    /\ IF \E t \in DOMAIN tasks : IsBatch(t)
       THEN /\ \A t \in DOMAIN tasks : IsBatch(t) => tasks[t].fns = registered
            /\ callbacks \in {registered, <<>>}
       ELSE callbacks = registered
    /\ completed = 1 => callbacks = <<>>

\* a goroutine onComplete started calls its one listener once, with the
\* terminal value and error
SinglesOnce ==
    \A t \in Singles :
        /\ Len(tasks[t].fns) = 1
        /\ Len(effective) = 1
        /\ tasks[t].v = effective[1].v
        /\ tasks[t].err = effective[1].err
        /\ Len(AsyncOf(t)) <= 1
        /\ Ended(t) => Len(AsyncOf(t)) = 1
        /\ \A i \in 1..Len(AsyncOf(t)) :
               /\ AsyncOf(t)[i].fn = tasks[t].fns[1]
               /\ AsyncOf(t)[i].v = effective[1].v
               /\ AsyncOf(t)[i].err = effective[1].err

\* the step by which a call of OnComplete returns
OnCompleteReturns(g) == garg[g].op = "OnComplete" /\ gpc'[g] = "idle"

ReturnedFrom(w, on) == wpc[w] = "done" /\ wcall[w].on = on

\* C25: completion takes priority over cancellation in Block and BlockContext
\* of the promise's future: a call made on a completed future, or one that
\* finds the future completed when it acts on the cancellation, returns the
\* value and error the promise was completed with, by whichever case of the
\* select, and not the error of the cancellation.
C25_CompletionFirst ==
    \A w \in Waiters :
        (ReturnedFrom(w, "promise") /\ (wcall[w].early \/ wret[w].done)) =>
            /\ Len(effective) = 1
            /\ wret[w].v = effective[1].v
            /\ wret[w].err = effective[1].err
            /\ wret[w].by \in {"done", "inner"}

\* the cancellation had fired and its case was taken, on a future completed
\* before the call was made: the nested select returned the value
C25_Witness ==
    \E w \in Waiters :
        /\ ReturnedFrom(w, "promise")
        /\ wcall[w].early
        /\ cancel[w] # nil
        /\ wret[w].by = "inner"
        /\ wret[w].v = "x"
        /\ wret[w].err = nil

\* a waiter's call returned by the case of its cancellation while the future
\* was not completed
Preempted(w) ==
    /\ wpc[w] = "done"
    /\ wret[w].by \in {"cancel", "default"}
    /\ ~wret[w].done

ReturnsCancelled(w) ==
    /\ wpc[w] # "done"
    /\ wpc'[w] = "done"
    /\ wret'[w].by \in {"cancel", "default"}

\* C27: cancelling a wait is non-destructive. The step by which Block or
\* BlockContext returns because of the cancellation leaves the future as it
\* was, Pending if it was (and the promise, and the source of a ctxFuture);
\* and once the promise is completed, every waiter whose call returns the
\* completion, and Value and Err, give the one value and error it was
\* completed with.
C27_CancelLeavesFuture ==
    /\ [](f.done =>
             /\ Len(effective) = 1
             /\ FutureValue = effective[1].v
             /\ FutureErr = effective[1].err
             /\ \A w \in Waiters :
                    (ReturnedFrom(w, "promise") /\ wret[w].by \in {"done", "inner"}) =>
                        /\ wret[w].v = effective[1].v
                        /\ wret[w].err = effective[1].err)
    /\ [][\A w \in Waiters :
             ReturnsCancelled(w) =>
                 /\ pvars' = pvars
                 /\ src' = src
                 /\ (wcall[w].on = "promise" /\ wret'[w].by = "default") => ~f'.done]_vars

\* one waiter's Block was cancelled while the promise was pending, the
\* promise was completed afterwards and the other waiter got its value
C27_Witness ==
    /\ ReturnedFrom("w1", "promise")
    /\ Preempted("w1")
    /\ wret["w1"].err = Canceled
    /\ ReturnedFrom("w2", "promise")
    /\ wret["w2"].by = "done"
    /\ wret["w2"].v = "x"
    /\ ~wcall["w2"].early
    /\ FutureValue = "x"

\* the calls of merge.Merge made for a future
CallsOf(i) == SelectSeq(mcalls, LAMBDA c : c.i = i)

\* the goroutines that are in merge.Merge
Merging == {i \in Inputs : mgo[i] = "merging"}

\* C28: BlockContext returns only after merge.Merge has been called, and has
\* returned, exactly once for every future that is not nil, and never for a
\* nil one; a call is made with the value and error of the future its
\* goroutine found completed, or else with nil and ctx.Err() of the cancelled
\* context; no two calls overlap.
C28_MergeOncePerFuture ==
    /\ Cardinality(Merging) <= 1
    /\ \A i \in Inputs :
           /\ Len(CallsOf(i)) <= 1
           /\ ins[i].kind = "nil" => CallsOf(i) = <<>>
           /\ mpc = "returned" =>
                  (ins[i].kind # "nil" => Len(CallsOf(i)) = 1 /\ mgo[i] = "done")
    /\ \A k \in 1..Len(mcalls) :
           IF mcalls[k].completed
           THEN /\ ins[mcalls[k].i].done
                /\ mcalls[k].v = ins[mcalls[k].i].v
                /\ mcalls[k].err = ins[mcalls[k].i].err
           ELSE /\ mctx # nil
                /\ mcalls[k].v = nil
                /\ mcalls[k].err = mctx

\* BlockContext has returned: the second future completed first and was
\* merged with its error, the first never completed and was merged with the
\* error of the context
C28_Witness ==
    /\ mpc = "returned"
    /\ merger.kind = "FirstError"
    /\ Len(mcalls) = 2
    /\ mcalls[1] = [i |-> 2, v |-> nil, err |-> "e1", completed |-> TRUE]
    /\ mcalls[2] = [i |-> 1, v |-> nil, err |-> DeadlineExceeded, completed |-> FALSE]
    /\ ~ins[1].done

\* the promise of JoinContext is completed at most once, by its goroutine,
\* with what BlockContext returned: the results of the last calls of
\* merge.Merge
CompletedWithMerge ==
    /\ closes <= 1
    /\ f.done =>
           /\ mpc = "returned"
           /\ Len(effective) = 1
           /\ effective[1].v = mres.v
           /\ effective[1].err = mres.err
           /\ f.v = mres.v
           /\ f.err = mres.err
    /\ (mpc = "returned" /\ mcalls # <<>>) =>
           /\ mres.v = nil
           /\ mres.err = merger.error

JoinReturned == jpc \in {"returned_pending", "returned_completed"}

\* every future given that is not nil has completed
InputsDone == \A i \in Inputs : ins[i].kind # "nil" => ins[i].done

\* C29 as stated, what a finite run can refute of it: the future JoinContext
\* returns is Pending when it is returned, and it is completed at most once,
\* with what BlockContext returned.
C29_ReturnsPending ==
    /\ jpc # "returned_completed"
    /\ CompletedWithMerge

\* C29 as amended: JoinContext returns its future without waiting for any
\* future given, and the future is Pending then unless the goroutine
\* JoinContext started has completed it already; it is completed at most
\* once, with what BlockContext returned; it is completed in the end once
\* every future given has completed or the context is cancelled.
C29_JoinCompletes ==
    /\ [](/\ CompletedWithMerge
          /\ jpc = "returned_completed" => f.done
          /\ (JoinReturned /\ mpc # "returned") => ~f.done)
    /\ (jpc = "started") ~> JoinReturned
    /\ (InputsDone \/ mctx # nil) ~> f.done

\* JoinContext returned a Pending future; the first future given never
\* completed, the context's deadline passed and the future of JoinContext
\* was completed with that error
C29_Witness ==
    /\ jpc = "returned_pending"
    /\ ins[1].kind = "future"
    /\ ~ins[1].done
    /\ merger.kind = "FirstError"
    /\ f.done
    /\ completed = 1
    /\ FutureErr = DeadlineExceeded

\* the values given to Flatten that are Futures
FutureValues == {"fixture_x", "fixture_e1", "awaitChan", "pending"}

Flattened == flat.pc \in {"returned", "reported"}

\* what the future Flatten returned was asked and answered
Saw(method, answer) == flat.pc = "reported" /\ flat.saw = <<method, answer>>

BadNamed(name) == TrimSpace(name) # name \/ \E k \in 1..Len(name) : ~IsWord(name[k])

\* a category that validateCategory rejects
BadCategory(category) ==
    \/ TrimSpace(category) = <<>>
    \/ \E k \in 1..Len(category) : ~IsWord(category[k]) /\ category[k] # "/"

\* what the call cl was given is invalid: the category for every operation,
\* the name for all but List, the version for Put, Get and Delete, the length
\* of the data for Put
InvalidInput(cl) ==
    \/ BadCategory(cl.ident.Location.Category)
    \/ cl.op # "List" /\ (cl.ident.Location.Name = <<>> \/ BadNamed(cl.ident.Location.Name))
    \/ cl.op \in {"Put", "Get", "Delete"} /\ BadNamed(cl.ident.Version)
    \/ cl.op = "Put" /\ cl.data.len > 1024 * 1024

\* the error of the first check that fails, of the checks in their order
ValidationError(cl) ==
    LET identErr ==
            IF cl.ident.Location.Name = <<>> \/ BadNamed(cl.ident.Location.Name)
                  \/ BadCategory(cl.ident.Location.Category)
            THEN "invalid location"
            ELSE IF BadNamed(cl.ident.Version) THEN "invalid version" ELSE "nil"
    IN  IF cl.op = "List" THEN "invalid category"
        ELSE IF cl.op = "Versions"
        THEN (IF cl.ident.Location.Name = <<>> \/ BadNamed(cl.ident.Location.Name)
              THEN "invalid name" ELSE "invalid category")
        ELSE IF identErr # "nil" THEN identErr
        ELSE "data is greater than 1MB"

\* C31: a Put, Get, Versions, Delete or List that is given an invalid
\* Location, category, version or an Item with more than 1 MiB of data returns
\* in the step of the call, before any operation of the coordination service:
\* the znodes are unchanged, nothing is found, and the error is the validation
\* error that the input alone determines, so that the same call fails the same
\* way whenever it is repeated.
C31_ValidationPrecedesIO ==
    [][(nops' = nops + 1 /\ InvalidInput(call'["c1"])) =>
          /\ pc'["c1"] = "done"
          /\ zk' = zk
          /\ lastPut' = lastPut
          /\ ret'["c1"].err = ValidationError(call'["c1"])
          /\ ~ret'["c1"].found
          /\ ret'["c1"].locations = <<>>
          /\ ret'["c1"].versions = <<>>]_vars

\* the second call on the filled store, a Put of more than 1 MiB of data, has
\* failed, and the znodes are as they were
C31_Witness ==
    /\ pc["c1"] = "done"
    /\ call["c1"].op = "Put"
    /\ call["c1"].data.len > 1024 * 1024
    /\ ret["c1"].err = "data is greater than 1MB"
    /\ nops = 2
    /\ zk = SeededStore

(***************************************************************************)
(* C32.  Concurrent creation of shared parents.                            *)
(***************************************************************************)
\* the znodes of the bare items of both calls differ
DifferentNames == call["c1"].ident.Location.Name # call["c2"].ident.Location.Name

\* C32: two Puts of items of different names under one category of which no
\* znode exists, interleaved in any way at the operations of the coordination
\* service: neither returns an error, and when both have returned each item's
\* znode exists and holds the data of its own Put.
C32_SharedParentsTolerated ==
    /\ \A c \in Clients : pc[c] = "done" => ret[c].err = "nil"
    /\ (\A c \in Clients : pc[c] = "done") =>
          /\ DifferentNames
          /\ \A c \in Clients :
                /\ Target(c) \in DOMAIN zk
                /\ zk[Target(c)].data = call[c].data
                /\ ret[c].ident = SetZKVersion(call[c].ident, zk[Target(c)].version)

\* foo and baz, of one bucket, were put on the store that had only the root:
\* both calls returned without error and each item holds its own data
C32_Witness ==
    /\ \A c \in Clients : pc[c] = "done" /\ ret[c].err = "nil"
    /\ call["c2"].ident.Location = Baz
    /\ Parent(Target("c1")) = Parent(Target("c2"))
    /\ zk[Target("c1")].data = Data1
    /\ zk[Target("c2")].data = Data2

(***************************************************************************)
(* C33.  List beside the removal of a bucket.                              *)
(***************************************************************************)
\* the bucket List reads next is gone
NextBucketGone(c) ==
    /\ pc[c] = "List_buckets"
    /\ pend[c] # <<>>
    /\ Join(<<bucketsPath(call[c].ident.Location.Category).path, Head(pend[c])>>)
          \notin DOMAIN zk

\* the names of the Locations a List returned
ListedNames(c) == {ret[c].locations[k].Name : k \in 1..Len(ret[c].locations)}

\* C33: when a bucket that the first Children call of a List returned is gone
\* at the time List reads its children, List goes on to the next bucket with
\* what it has collected; and a List beside such removals returns found =
\* true, no error, and Locations in increasing order of Name, among them every
\* item of the buckets that remain, and none that had no znode when List was
\* called.
C33_MissingBucketSkipped ==
    /\ [][(NextBucketGone("c1") /\ pend'["c1"] # pend["c1"]) =>
             /\ pc'["c1"] = "List_buckets"
             /\ pend'["c1"] = Tail(pend["c1"])
             /\ ret'["c1"] = ret["c1"]
             /\ ret["c1"].found /\ ret["c1"].err = "nil"]_vars
    /\ [](Returned("c1", "List") =>
             /\ ret["c1"].found
             /\ ret["c1"].err = "nil"
             /\ Increasing([k \in 1..Len(ret["c1"].locations) |-> ret["c1"].locations[k].Name])
             /\ ItemNames(zk, Widgets) \subseteq ListedNames("c1")
             /\ ListedNames("c1") \subseteq ItemNames(pre["c1"], Widgets))

\* List was called when foo and bar had znodes; bar was deleted and its bucket
\* removed while List ran, and List returned foo alone, found and no error
C33_Witness ==
    /\ Returned("c1", "List")
    /\ Returned("c2", "Delete")
    /\ BarPath \in DOMAIN pre["c1"]
    /\ Parent(BarPath) \notin DOMAIN zk
    /\ ret["c1"].found
    /\ ret["c1"].err = "nil"
    /\ ListedNames("c1") = {<<"foo">>}

(***************************************************************************)
(* C35.  What a successful Put has written.                                *)
(***************************************************************************)
\* the Puts that were called name one Ident, whatever version they expect
SameIdent ==
    \A c, d \in Clients :
        (call[c].op = "Put" /\ call[d].op = "Put") =>
            /\ call[c].ident.Location = call[d].ident.Location
            /\ call[c].ident.Version = call[d].ident.Version

\* the step in which the Put of c returns without error
PutReturns(c) ==
    /\ call[c].op = "Put"
    /\ pc[c] # "done"
    /\ pc'[c] = "done"
    /\ ret'[c].err = "nil"

\* C35: whenever a Put returns without error, beside other Puts of the same
\* Ident in any interleaving, the znode of the Ident holds, at the version the
\* Put returns, the data of this Put: the call has written its payload.
C35_SuccessfulPutWrote ==
    [][\A c \in Clients :
          (SameIdent /\ PutReturns(c)) =>
              /\ Target(c) \in DOMAIN zk'
              /\ zk'[Target(c)].version = ret'[c].ident.ZKVersion[1]
              /\ zk'[Target(c)].data = call[c].data]_vars

(***************************************************************************)
(* C36.  A Put that fails on a missing znode.                              *)
(***************************************************************************)
\* the Put of c expected a version of a znode that did not exist, and failed
\* with ErrVersionConflict
VersionOnMissing(c) ==
    /\ Returned(c, "Put")
    /\ ret[c].err = "ErrVersionConflict"
    /\ Target(c) \notin DOMAIN pre[c]

DeleteConflict(c) ==
    /\ Returned(c, "Delete")
    /\ call[c].ident.Version = <<>>
    /\ ret[c].err = "ErrVersionConflict"

\* C37 as claimed: a Delete of a bare Ident that returns ErrVersionConflict
\* has removed no znode: the item's znode and those of all its versions still
\* exist, with their data.
C37_ConflictRemovesNothing ==
    DeleteConflict("c1") => zk = pre["c1"]

\* C37 as amended: a Delete of a bare Ident that returns ErrVersionConflict
\* has removed the znodes of the item's versions and no other: the item's
\* znode still exists with its data and version, and has no version left.
C37_ConflictKeepsItemOnly ==
    DeleteConflict("c1") =>
        /\ Target("c1") \in DOMAIN zk
        /\ ChildNames(zk, Target("c1")) = {}
        /\ DOMAIN zk = {p \in DOMAIN pre["c1"] : Parent(p) # Target("c1")}
        /\ \A p \in DOMAIN zk : zk[p] = pre["c1"][p]

\* the item foo had the versions v1 and v2 when its Delete was called with a
\* stale version: the Delete returned ErrVersionConflict, foo is there and its
\* versions are gone
C37_Witness ==
    /\ DeleteConflict("c1")
    /\ ChildNames(pre["c1"], Target("c1")) = {<<"v1">>, <<"v2">>}
    /\ Target("c1") \in DOMAIN zk
    /\ ChildNames(zk, Target("c1")) = {}

(***************************************************************************)
(* C38.  Categories side by side.                                          *)
(***************************************************************************)
\* the item of the Location was put, and not deleted since
WasPut(location) ==
    identPath([NoIdent EXCEPT !.Location = location]).path \in DOMAIN lastPut

\* C38: after any Puts and Deletes, List of a category returns the Locations
\* of items that were put under that category and of nothing else, and Get of
\* an Ident finds only what was put under the Ident's category; a Put under
\* another category, "widgets/buckets/5" among them, adds no Location to the
\* List of "widgets".
C38_CategoriesIsolated ==
    /\ (Returned("c1", "List") /\ ret["c1"].found) =>
          \A k \in 1..Len(ret["c1"].locations) :
              /\ ret["c1"].locations[k].Category = call["c1"].ident.Location.Category
              /\ WasPut(ret["c1"].locations[k])
    /\ (Returned("c1", "Get") /\ ret["c1"].found) =>
          /\ WasPut(call["c1"].ident.Location)
          /\ ret["c1"].data = zk[Target("c1")].data

(***************************************************************************)
(* C34.  The cache's lock.                                                 *)
(***************************************************************************)
\* the lock a goroutine holds
HeldBy(g) ==
    IF cg[g].pc \in {"enter", "inside", "unlock"}
    THEN lockOf(cache.kind, cg[g].op)
    ELSE "none"

\* C34: every method of the cache accesses the map of objects only while it
\* holds the cache's lock, the write lock for a write, so that in no
\* interleaving of the callers a write of the map overlaps another access.
C34_MapOnlyUnderLock ==
    \A g \in Callers :
        /\ cg[g].in = "write" => HeldBy(g) = "Lock"
        /\ cg[g].in = "read" => HeldBy(g) \in {"RLock", "Lock"}
        /\ cg[g].in = "write" => \A h \in Callers \ {g} : cg[h].in = "none"

(***************************************************************************)
(* C39.  Calls on the promise return.                                      *)
(***************************************************************************)
\* the goroutine is in no call: it made none, its call returned, or the
\* panic of a completer left its Complete
NotCalling(g) == gpc[g] \in {"idle", "panicked"}

\* C39: every call of Complete, OnComplete and OnPanic returns: none waits
\* for ever, the calls that a completer makes on the promise it is called
\* for, while that promise is being completed, among them.
C39_EveryCallReturns ==
    \A g \in Reentrants : (~NotCalling(g)) ~> (NotCalling(g) \/ crashed)

(***************************************************************************)
(* C40.  The order of the effects of a completion.                         *)
(***************************************************************************)
\* the entries of the log up to the k-th that are calls of completers
SyncUpTo(k) == {j \in 1..k : log[j].kind = "sync"}

\* C40: the value and the error are stored before any listener runs; every
\* completer runs before f.done is closed; and every listener registered
\* with OnComplete runs after f.done was closed, hence after all completers.
\* So whoever sees f.done closed sees the stored value and error, and all
\* completers have run.
C40_CompletionOrder ==
    /\ \A k \in DOMAIN log :
          /\ log[k].kind \in {"sync", "async"} =>
                /\ effective # <<>>
                /\ log[k].v = effective[1].v /\ log[k].err = effective[1].err
                /\ f.v = log[k].v /\ f.err = log[k].err
          /\ log[k].kind = "sync" => ~log[k].done
          /\ log[k].kind = "async" =>
                /\ log[k].done
                /\ Cardinality(SyncUpTo(k)) = Len(options.completers)
    /\ f.done =>
          /\ effective # <<>>
          /\ f.v = effective[1].v /\ f.err = effective[1].err
          /\ Cardinality(SyncUpTo(Len(log))) = Len(options.completers)

\* the promise has the completers s1 and s2; a listener registered before the
\* completion has run after both of them, with f.done closed
C40_Witness ==
    /\ options.completers = <<"s1", "s2">>
    /\ f.done
    /\ \E k \in DOMAIN log :
          /\ log[k].kind = "async"
          /\ log[k].task # 0
          /\ tasks[log[k].task].wait
          /\ \E i, j \in 1..(k - 1) :
                /\ i < j
                /\ log[i].kind = "sync" /\ log[i].fn = "s1"
                /\ log[j].kind = "sync" /\ log[j].fn = "s2"

====
